---- MODULE Spec2Model ----
(***************************************************************************)
(* A model of the API documentation generator of src/api_docs.py: the      *)
(* syntax-tree walk that fills the endpoints catalog, the docstring        *)
(* interpreter, the type-annotation renderer, the OpenAPI and Markdown     *)
(* emitters and analyze_api_code.                                          *)
(*                                                                         *)
(* Python strings are strings; strip/lower/startswith/split and the        *)
(* substring test are computed character by character with SubSeq.         *)
(* Python values whose type varies at run time (None, str, int, dict) are  *)
(* tagged records [t, v].  A dict that is only looked up is a function.    *)
(* The input of parse_fastapi_app is the tree ast.parse builds (CPython    *)
(* 3.9 - 3.13, where ast.Str and Constant.s exist and the slice of a       *)
(* subscript is the expression itself), or a text that ast.parse rejects.  *)
(*                                                                         *)
(* Spec is the generator with its public operations; StackedSpec is the    *)
(* same generator given further sources (stacked decorators, several path  *)
(* candidates, nested and async definitions); HelperSpec calls             *)
(* _parse_docstring and _get_type_hint on their own.  AuthSpec is the      *)
(* users table of src/auth.py with register_user and login_user; the       *)
(* generator never touches that table.                                     *)
(***************************************************************************)
EXTENDS Integers, Sequences, FiniteSets, TLC

VARIABLES endpoints, lastOp, lastCode, before, ret, users

vars == <<endpoints, lastOp, lastCode, before, ret, users>>

(***************************************************************************)
(* Bound of the model: the catalog never grows beyond MaxCatalog records.  *)
(***************************************************************************)
MaxCatalog == 3

(***************************************************************************)
(* Python values and strings                                               *)
(***************************************************************************)
None == [t |-> "None", v |-> ""]

PyStr(s) == [t |-> "str", v |-> s]

PyInt(s) == [t |-> "int", v |-> s]

\* True or False, by its text
PyBool(s) == [t |-> "bool", v |-> s]

PyDict(d) == [t |-> "dict", v |-> d]

EmptyDict == [k \in {} |-> <<>>]

\* bool(x): None, "", 0 and {} are false
Truthy(x) ==
    CASE x.t = "None" -> FALSE
      [] x.t = "str"  -> x.v # ""
      [] x.t = "int"  -> x.v # "0"
      [] x.t = "bool" -> x.v = "True"
      [] x.t = "dict" -> DOMAIN x.v # {}

\* str(x), as an f-string or str() renders a value
Str(x) ==
    CASE x.t = "None" -> "None"
      [] x.t = "str"  -> x.v
      [] x.t = "int"  -> x.v
      [] x.t = "bool" -> x.v

UpperAlpha == "ABCDEFGHIJKLMNOPQRSTUVWXYZ"

LowerAlpha == "abcdefghijklmnopqrstuvwxyz"

Digits == "0123456789"

\* the characters of s, as a set
CharSet(s) == {SubSeq(s, i, i) : i \in 1..Len(s)}

UpperSet == CharSet(UpperAlpha)

LowerSet == CharSet(LowerAlpha)

SpaceSet == {" ", "\t", "\n", "\r", "\f"}

WordSet == UpperSet \cup LowerSet \cup CharSet(Digits) \cup {"_"}

LowerMap ==
    [c \in UpperSet |->
        LET i == CHOOSE i \in 1..Len(UpperAlpha) : SubSeq(UpperAlpha, i, i) = c
        IN  SubSeq(LowerAlpha, i, i)]

UpperMap ==
    [c \in LowerSet |->
        LET i == CHOOSE i \in 1..Len(LowerAlpha) : SubSeq(LowerAlpha, i, i) = c
        IN  SubSeq(UpperAlpha, i, i)]

LowerChar(c) == IF c \in UpperSet THEN LowerMap[c] ELSE c

UpperChar(c) == IF c \in LowerSet THEN UpperMap[c] ELSE c

\* str.lower()
RECURSIVE Lower(_)
Lower(s) ==
    IF s = "" THEN "" ELSE LowerChar(SubSeq(s, 1, 1)) \o Lower(SubSeq(s, 2, Len(s)))

\* str.upper()
RECURSIVE Upper(_)
Upper(s) ==
    IF s = "" THEN "" ELSE UpperChar(SubSeq(s, 1, 1)) \o Upper(SubSeq(s, 2, Len(s)))

\* str.isspace() of one character; \s of the regular expression
IsSpace(c) == c \in SpaceSet

\* \w of the regular expression
IsWord(c) == c \in WordSet

\* str.strip()
Strip(s) ==
    LET keep == {i \in 1..Len(s) : ~IsSpace(SubSeq(s, i, i))}
        lo == CHOOSE i \in keep : \A j \in keep : i <= j
        hi == CHOOSE i \in keep : \A j \in keep : j <= i
    IN  IF keep = {} THEN "" ELSE SubSeq(s, lo, hi)

\* str.startswith(p)
StartsWith(s, p) == Len(s) >= Len(p) /\ SubSeq(s, 1, Len(p)) = p

\* sub in s
Contains(s, sub) ==
    \E i \in 1..(Len(s) - Len(sub) + 1) : SubSeq(s, i, i + Len(sub) - 1) = sub

\* s.split(sep) for a one-character separator
RECURSIVE Split(_, _)
Split(s, sep) ==
    LET hits == {i \in 1..Len(s) : SubSeq(s, i, i) = sep}
        first == CHOOSE i \in hits : \A j \in hits : i <= j
    IN  IF hits = {} THEN <<s>>
        ELSE <<SubSeq(s, 1, first - 1)>> \o Split(SubSeq(s, first + 1, Len(s)), sep)

\* sep.join(parts)
RECURSIVE Join(_, _)
Join(parts, sep) ==
    IF parts = <<>> THEN ""
    ELSE IF Len(parts) = 1 THEN parts[1]
    ELSE parts[1] \o sep \o Join(Tail(parts), sep)

(***************************************************************************)
(* Syntax-tree nodes, as ast.parse builds them                             *)
(***************************************************************************)
NoNode == [kind |-> "None"]

Name(id) == [kind |-> "Name", id |-> id]

Attribute(value, attr) == [kind |-> "Attribute", value |-> value, attr |-> attr]

Constant(value) == [kind |-> "Constant", value |-> value, s |-> value]

Call(func, args, keywords) ==
    [kind |-> "Call", func |-> func, args |-> args, keywords |-> keywords]

keyword(arg, value) == [arg |-> arg, value |-> value]

Subscript(value, slice) == [kind |-> "Subscript", value |-> value, slice |-> slice]

Tuple(elts) == [kind |-> "Tuple", elts |-> elts]

Index(value) == [kind |-> "Index", value |-> value]

arg(name, annotation) == [arg |-> name, annotation |-> annotation]

\* node.args: the positional parameters and the defaults of the last of them
arguments(args, defaults) == [args |-> args, defaults |-> defaults]

\* docstring is what ast.get_docstring(node) returns: None or the cleaned text
FunctionDef(name, decorator_list, args, returns, docstring, body) ==
    [kind |-> "FunctionDef", name |-> name, decorator_list |-> decorator_list,
     args |-> args, returns |-> returns, docstring |-> docstring, body |-> body]

AsyncFunctionDef(name, decorator_list, args, returns, docstring, body) ==
    [kind |-> "AsyncFunctionDef", name |-> name, decorator_list |-> decorator_list,
     args |-> args, returns |-> returns, docstring |-> docstring, body |-> body]

ClassDef(name, body) == [kind |-> "ClassDef", name |-> name, body |-> body]

Module(body) == [kind |-> "Module", body |-> body]

\* hasattr(node, field)
HasAttr(node, field) == field \in DOMAIN node

\* isinstance(node, ast.Str): a constant whose value is a str
IsStr(node) == node.kind = "Constant" /\ node.value.t = "str"

(***************************************************************************)
(* _get_type_hint: the type-annotation renderer                            *)
(***************************************************************************)
\* a slip of fallback_hint: str(node), the default text of the node object
fallback_hint_of_object(node) == "<ast." \o node.kind \o " object>"

\* return "Any"
fallback_hint(node) == "Any"

\* a slip of _get_type_hint: no branch for ast.Constant
RECURSIVE _get_type_hint_without_constant(_)
_get_type_hint_without_constant(node) ==
    IF node.kind = "Name" THEN node.id
    ELSE IF node.kind = "Subscript"
    THEN LET value == _get_type_hint_without_constant(node.value)
             slice_value == _get_type_hint_without_constant(node.slice)
         IN  value \o "[" \o slice_value \o "]"
    ELSE fallback_hint(node)

RECURSIVE _get_type_hint(_)
_get_type_hint(node) ==
    IF node.kind = "Name" THEN node.id
    ELSE IF node.kind = "Subscript"
    THEN LET value == _get_type_hint(node.value)
             slice_value == _get_type_hint(node.slice)
         IN  value \o "[" \o slice_value \o "]"
    ELSE IF node.kind = "Constant" THEN Str(node.value)
    ELSE fallback_hint(node)

(***************************************************************************)
(* _parse_docstring: the docstring interpreter                             *)
(***************************************************************************)
\* the first index >= i of s whose character is not a space (Len(s)+1 if none)
EndOfSpaces(s, i) ==
    LET stops == {j \in i..Len(s) : ~IsSpace(SubSeq(s, j, j))}
    IN  IF stops = {} THEN Len(s) + 1 ELSE CHOOSE j \in stops : \A k \in stops : j <= k

\* the first index >= i of s whose character is not a word character
EndOfWord(s, i) ==
    LET stops == {j \in i..Len(s) : ~IsWord(SubSeq(s, j, j))}
    IN  IF stops = {} THEN Len(s) + 1 ELSE CHOOSE j \in stops : \A k \in stops : j <= k

\* a slip of param_match: the line is split at its last colon, not its first
param_match_last_colon(line) ==
    LET colons == {i \in 1..Len(line) : SubSeq(line, i, i) = ":"}
        last == CHOOSE i \in colons : \A j \in colons : j <= i
        name == IF colons = {} THEN "" ELSE Strip(SubSeq(line, 1, last - 1))
        text == IF colons = {} THEN "" ELSE Strip(SubSeq(line, last + 1, Len(line)))
    IN  IF name # "" /\ text # ""
        THEN [ok |-> TRUE, group1 |-> name, group2 |-> text]
        ELSE [ok |-> FALSE, group1 |-> "", group2 |-> ""]

\* re.match(r'\s*(\w+)\s*:\s*(.+)', line): group 1 is the longest word at the
\* start, group 2 the rest of the line after the colon and the spaces that
\* follow it (the last space when only spaces follow the colon)
param_match(line) ==
    LET a == EndOfSpaces(line, 1)
        b == EndOfWord(line, a)
        c == EndOfSpaces(line, b)
        rest == SubSeq(line, c + 1, Len(line))
        d == EndOfSpaces(rest, 1)
    IN  IF b > a /\ c <= Len(line) /\ SubSeq(line, c, c) = ":" /\ rest # ""
        THEN [ok |-> TRUE, group1 |-> SubSeq(line, a, b - 1),
              group2 |-> IF d > Len(rest) THEN SubSeq(rest, Len(rest), Len(rest))
                         ELSE SubSeq(rest, d, Len(rest))]
        ELSE [ok |-> FALSE, group1 |-> "", group2 |-> ""]

\* a slip of the loop over the lines: a keyword anywhere in the line opens
\* its section
docstring_line_keyword_anywhere(st, rawline) ==
    LET line == Strip(rawline)
        cur == st.current_section
    IN  IF Contains(Lower(line), "parameters:")
        THEN [st EXCEPT !.current_section = "parameters"]
        ELSE IF Contains(Lower(line), "returns:")
        THEN [st EXCEPT !.current_section = "returns"]
        ELSE IF Contains(Lower(line), "raises:")
        THEN [st EXCEPT !.current_section = "raises"]
        ELSE IF line # ""
        THEN CASE cur = "description" ->
                    [st EXCEPT !.sections.description = @ \o line \o " "]
               [] cur = "parameters" ->
                    LET m == param_match(line)
                    IN  IF m.ok
                        THEN [st EXCEPT !.sections.parameters = (m.group1 :> m.group2) @@ @]
                        ELSE st
               [] cur = "returns" ->
                    [st EXCEPT !.sections.returns = @ \o line \o " "]
               [] cur = "raises" ->
                    [st EXCEPT !.sections.raises = Append(@, line)]
        ELSE st

\* one iteration of the loop over the lines
docstring_line(st, rawline) ==
    LET line == Strip(rawline)
        cur == st.current_section
    IN  IF StartsWith(Lower(line), "parameters:")
        THEN [st EXCEPT !.current_section = "parameters"]
        ELSE IF StartsWith(Lower(line), "returns:")
        THEN [st EXCEPT !.current_section = "returns"]
        ELSE IF StartsWith(Lower(line), "raises:")
        THEN [st EXCEPT !.current_section = "raises"]
        ELSE IF line # ""
        THEN CASE cur = "description" ->
                    [st EXCEPT !.sections.description = @ \o line \o " "]
               [] cur = "parameters" ->
                    LET m == param_match(line)
                    IN  IF m.ok
                        THEN [st EXCEPT !.sections.parameters = (m.group1 :> m.group2) @@ @]
                        ELSE st
               [] cur = "returns" ->
                    [st EXCEPT !.sections.returns = @ \o line \o " "]
               [] cur = "raises" ->
                    [st EXCEPT !.sections.raises = Append(@, line)]
        ELSE st

RECURSIVE docstring_lines(_, _)
docstring_lines(st, lines) ==
    IF lines = <<>> THEN st
    ELSE docstring_lines(docstring_line(st, Head(lines)), Tail(lines))

_parse_docstring(docstring) ==
    LET sections == [description |-> "", parameters |-> EmptyDict,
                     returns |-> "", raises |-> <<>>]
        lines == Split(docstring, "\n")
    IN  docstring_lines([sections |-> sections, current_section |-> "description"],
                        lines).sections

(***************************************************************************)
(* _parse_endpoint: the single-endpoint extractor                          *)
(***************************************************************************)
\* for arg in decorator.args: if isinstance(arg, ast.Str): path = arg.s
RECURSIVE path_from_args(_, _)
path_from_args(path, args) ==
    IF args = <<>> THEN path
    ELSE path_from_args(IF IsStr(Head(args)) THEN Head(args).s ELSE path, Tail(args))

\* for kw in decorator.keywords: if kw.arg == 'path': path = kw.value.s
\* kw.value.s raises AttributeError when the value is not a constant
RECURSIVE path_from_keywords(_, _)
path_from_keywords(path, keywords) ==
    IF keywords = <<>> THEN [path |-> path, raised |-> FALSE]
    ELSE LET kw == Head(keywords)
         IN  IF kw.arg = "path"
             THEN IF HasAttr(kw.value, "s")
                  THEN path_from_keywords(kw.value.s, Tail(keywords))
                  ELSE [path |-> path, raised |-> TRUE]
             ELSE path_from_keywords(path, Tail(keywords))

\* a slip of is_auth_marker: the identifier is not compared
is_auth_marker_any_name(func) == func.kind = "Name"

\* the marker test of the elif branch
is_auth_marker(func) == func.kind = "Name" /\ func.id = "requires_auth"

\* one iteration of the loop over node.decorator_list
decorator_step(st, decorator) ==
    IF st.raised THEN st
    ELSE IF decorator.kind = "Call"
    THEN IF HasAttr(decorator.func, "attr")
         THEN LET kws == path_from_keywords(path_from_args(st.path, decorator.args),
                                            decorator.keywords)
              IN  [st EXCEPT !.method = PyStr(Lower(decorator.func.attr)),
                             !.path = kws.path,
                             !.raised = kws.raised]
         ELSE IF is_auth_marker(decorator.func)
         THEN [st EXCEPT !.auth_required = TRUE]
         ELSE st
    ELSE st

RECURSIVE decorator_loop(_, _)
decorator_loop(st, decorators) ==
    IF decorators = <<>> THEN st
    ELSE decorator_loop(decorator_step(st, Head(decorators)), Tail(decorators))

\* a slip of record_complete: only the method is tested
record_complete_method_only(path, method) == Truthy(method)

\* if path and method
record_complete(path, method) == Truthy(path) /\ Truthy(method)

\* description = self._parse_docstring(docstring) if docstring else ""
endpoint_description(node) ==
    IF Truthy(node.docstring) THEN PyDict(_parse_docstring(node.docstring.v))
    ELSE PyStr("")

\* the parameter record of one argument
endpoint_parameter(a) ==
    [name |-> a.arg,
     type |-> IF a.annotation # NoNode THEN PyStr(_get_type_hint(a.annotation)) ELSE None,
     required |-> TRUE]

\* a slip of endpoint_parameters: the first parameter is not skipped
endpoint_parameters_with_first(node) ==
    [i \in 1..Len(node.args.args) |-> endpoint_parameter(node.args.args[i])]

\* for arg in node.args.args[1:]
endpoint_parameters(node) ==
    IF node.args.args = <<>> THEN <<>>
    ELSE [i \in 1..(Len(node.args.args) - 1) |-> endpoint_parameter(node.args.args[i + 1])]

endpoint_response(node) ==
    IF node.returns # NoNode THEN ("type" :> _get_type_hint(node.returns)) ELSE EmptyDict

APIEndpoint(path, method, description, parameters, response, auth_required) ==
    [path |-> path, method |-> method, description |-> description,
     parameters |-> parameters, response |-> response, auth_required |-> auth_required]

\* a slip of _parse_endpoint: the record is inserted at the front of the catalog
_parse_endpoint_insert_front(eps, node) ==
    LET st == decorator_loop([path |-> None, method |-> None,
                              auth_required |-> FALSE, raised |-> FALSE],
                             node.decorator_list)
    IN  IF st.raised THEN eps
        ELSE IF record_complete(st.path, st.method)
        THEN <<APIEndpoint(st.path, st.method.v, endpoint_description(node),
                           endpoint_parameters(node), endpoint_response(node),
                           st.auth_required)>> \o eps
        ELSE eps

\* the catalog after _parse_endpoint(node); an exception is caught and logged
_parse_endpoint(eps, node) ==
    LET st == decorator_loop([path |-> None, method |-> None,
                              auth_required |-> FALSE, raised |-> FALSE],
                             node.decorator_list)
    IN  IF st.raised THEN eps
        ELSE IF record_complete(st.path, st.method)
        THEN Append(eps, APIEndpoint(st.path, st.method.v, endpoint_description(node),
                                     endpoint_parameters(node), endpoint_response(node),
                                     st.auth_required))
        ELSE eps

(***************************************************************************)
(* parse_fastapi_app: the tree walk                                        *)
(***************************************************************************)
\* for item in node.body: if isinstance(item, ast.FunctionDef)
RECURSIVE _parse_router_class_items(_, _)
_parse_router_class_items(eps, items) ==
    IF items = <<>> THEN eps
    ELSE _parse_router_class_items(
             IF Head(items).kind = "FunctionDef" THEN _parse_endpoint(eps, Head(items))
             ELSE eps,
             Tail(items))

\* a slip of the class dispatch: the functions of the body are left to the walk
_parse_router_class_skipped(eps, node) == eps

_parse_router_class(eps, node) == _parse_router_class_items(eps, node.body)

\* ast.iter_child_nodes, restricted to the statements a node holds (no
\* expression node contains a class or function definition)
iter_child_nodes(node) == IF HasAttr(node, "body") THEN node.body ELSE <<>>

\* ast.walk: breadth first, from a queue
RECURSIVE walk(_)
walk(todo) ==
    IF todo = <<>> THEN <<>>
    ELSE <<Head(todo)>> \o walk(Tail(todo) \o iter_child_nodes(Head(todo)))

\* a slip of the walk: _parse_endpoint does not catch its exception, which
\* ends the loop of parse_fastapi_app
RECURSIVE walk_loop_abort_on_failure(_, _)
walk_loop_abort_on_failure(eps, nodes) ==
    IF nodes = <<>> THEN eps
    ELSE LET node == Head(nodes)
             failed == /\ node.kind = "FunctionDef"
                       /\ decorator_loop([path |-> None, method |-> None,
                                          auth_required |-> FALSE, raised |-> FALSE],
                                         node.decorator_list).raised
         IN  IF failed THEN eps
             ELSE walk_loop_abort_on_failure(
                      IF node.kind = "ClassDef" THEN _parse_router_class(eps, node)
                      ELSE IF node.kind = "FunctionDef" THEN _parse_endpoint(eps, node)
                      ELSE eps,
                      Tail(nodes))

\* a slip of the walk: an async function definition is handed over as well
RECURSIVE walk_loop_with_async(_, _)
walk_loop_with_async(eps, nodes) ==
    IF nodes = <<>> THEN eps
    ELSE LET node == Head(nodes)
         IN  walk_loop_with_async(
                 IF node.kind = "ClassDef" THEN _parse_router_class(eps, node)
                 ELSE IF node.kind \in {"FunctionDef", "AsyncFunctionDef"}
                 THEN _parse_endpoint(eps, node)
                 ELSE eps,
                 Tail(nodes))

\* the body of the for loop of parse_fastapi_app
RECURSIVE walk_loop(_, _)
walk_loop(eps, nodes) ==
    IF nodes = <<>> THEN eps
    ELSE LET node == Head(nodes)
         IN  walk_loop(IF node.kind = "ClassDef" THEN _parse_router_class(eps, node)
                       ELSE IF node.kind = "FunctionDef" THEN _parse_endpoint(eps, node)
                       ELSE eps,
                       Tail(nodes))

\* the text that ast.parse rejects
SyntaxErrorText == [kind |-> "SyntaxError"]

ast_parse(code) ==
    IF code.kind = "Module" THEN [raised |-> FALSE, tree |-> code]
    ELSE [raised |-> TRUE, tree |-> NoNode]

\* a slip of parse_fastapi_app: the failure of ast.parse is not caught
parse_fastapi_app_uncaught(eps, code) ==
    LET parsed == ast_parse(code)
    IN  IF parsed.raised THEN [endpoints |-> eps, raised |-> TRUE]
        ELSE [endpoints |-> walk_loop(eps, walk(<<parsed.tree>>)), raised |-> FALSE]

\* [endpoints, raised]: the catalog after the call and whether an exception
\* reached the caller
parse_fastapi_app(eps, code) ==
    LET parsed == ast_parse(code)
    IN  IF parsed.raised THEN [endpoints |-> eps, raised |-> FALSE]
        ELSE [endpoints |-> walk_loop(eps, walk(<<parsed.tree>>)), raised |-> FALSE]

(***************************************************************************)
(* generate_openapi_spec                                                   *)
(***************************************************************************)
\* a slip of parameter_location: the name is looked up without its braces
parameter_location_unbraced(path, name) ==
    IF Contains(path, name) THEN "path" ELSE "query"

\* 'path' if '{' + param['name'] + '}' in endpoint.path else 'query'
parameter_location(path, name) ==
    IF Contains(path, "{" \o name \o "}") THEN "path" ELSE "query"

\* one entry of the 'parameters' list comprehension
openapi_parameter(endpoint, param) ==
    [name |-> param.name,
     in |-> parameter_location(endpoint.path.v, param.name),
     required |-> param.required,
     schema |-> [type |-> IF Truthy(param.type) THEN Lower(param.type.v)
                          ELSE "string"]]

\* the exception that building the entry of one endpoint raises, if any:
\* "".get is an AttributeError, '{..}' in <an int> a TypeError
openapi_exception(endpoint) ==
    IF endpoint.description.t # "dict" THEN "AttributeError"
    ELSE IF endpoint.parameters # <<>> /\ endpoint.path.t # "str" THEN "TypeError"
    ELSE "none"

\* if endpoint.auth_required: ...['security'] = [{'bearerAuth': []}]
with_security(endpoint, operation) ==
    IF endpoint.auth_required
    THEN ("security" :> <<[bearerAuth |-> <<>>]>>) @@ operation
    ELSE operation

\* the value stored at spec['paths'][endpoint.path][endpoint.method]
openapi_operation(endpoint) ==
    with_security(endpoint,
        [summary |-> endpoint.description.v.description,
         parameters |-> [i \in 1..Len(endpoint.parameters) |->
                            openapi_parameter(endpoint, endpoint.parameters[i])],
         responses |-> ("200" :>
            [description |-> "Successful response",
             content |-> ("application/json" :>
                [schema |-> [type |->
                    IF "type" \in DOMAIN endpoint.response
                    THEN Lower(endpoint.response["type"])
                    ELSE "object"]])])])

\* a slip of openapi_step: an entry already present for the method is kept
openapi_step_first_wins(st, endpoint) ==
    IF st.raised THEN st
    ELSE IF openapi_exception(endpoint) # "none"
    THEN [st EXCEPT !.raised = TRUE, !.exc = openapi_exception(endpoint)]
    ELSE LET entry == IF endpoint.path \in DOMAIN st.paths THEN st.paths[endpoint.path]
                      ELSE EmptyDict
         IN  [st EXCEPT !.paths = (endpoint.path :>
                                    (entry @@ (endpoint.method :> openapi_operation(endpoint))))
                                  @@ @]

\* a slip of openapi_step: the new entry is laid over the entry already
\* present for the method, whose other keys stay
openapi_step_update_entry(st, endpoint) ==
    IF st.raised THEN st
    ELSE IF openapi_exception(endpoint) # "none"
    THEN [st EXCEPT !.raised = TRUE, !.exc = openapi_exception(endpoint)]
    ELSE LET entry == IF endpoint.path \in DOMAIN st.paths THEN st.paths[endpoint.path]
                      ELSE EmptyDict
             old == IF endpoint.method \in DOMAIN entry THEN entry[endpoint.method]
                    ELSE EmptyDict
         IN  [st EXCEPT !.paths = (endpoint.path :>
                                    ((endpoint.method :> (openapi_operation(endpoint) @@ old))
                                     @@ entry))
                                  @@ @]

\* one iteration of the loop over self.endpoints
openapi_step(st, endpoint) ==
    IF st.raised THEN st
    ELSE IF openapi_exception(endpoint) # "none"
    THEN [st EXCEPT !.raised = TRUE, !.exc = openapi_exception(endpoint)]
    ELSE LET entry == IF endpoint.path \in DOMAIN st.paths THEN st.paths[endpoint.path]
                      ELSE EmptyDict
         IN  [st EXCEPT !.paths = (endpoint.path :>
                                    ((endpoint.method :> openapi_operation(endpoint)) @@ entry))
                                  @@ @]

RECURSIVE openapi_loop(_, _)
openapi_loop(st, eps) ==
    IF eps = <<>> THEN st
    ELSE openapi_loop(openapi_step(st, Head(eps)), Tail(eps))

\* [raised, exc, value]
generate_openapi_spec(eps) ==
    LET st == openapi_loop([paths |-> EmptyDict, raised |-> FALSE, exc |-> "none"], eps)
    IN  [raised |-> st.raised, exc |-> st.exc,
         value |-> IF st.raised THEN None
                   ELSE PyDict([openapi |-> "3.0.0",
                                info |-> [title |-> "API Documentation",
                                          version |-> "1.0.0"],
                                paths |-> st.paths])]

(***************************************************************************)
(* generate_markdown_docs                                                  *)
(***************************************************************************)
\* a slip of group_step: every endpoint opens a group of its own
group_step_no_grouping(grouped, endpoint) ==
    Append(grouped, [path |-> endpoint.path, endpoints |-> <<endpoint>>])

\* grouped_endpoints: a dict in insertion order, as a sequence of its items
group_step(grouped, endpoint) ==
    IF \E i \in DOMAIN grouped : grouped[i].path = endpoint.path
    THEN LET i == CHOOSE i \in DOMAIN grouped : grouped[i].path = endpoint.path
         IN  [grouped EXCEPT ![i].endpoints = Append(@, endpoint)]
    ELSE Append(grouped, [path |-> endpoint.path, endpoints |-> <<endpoint>>])

RECURSIVE group_loop(_, _)
group_loop(grouped, eps) ==
    IF eps = <<>> THEN grouped
    ELSE group_loop(group_step(grouped, Head(eps)), Tail(eps))

\* the row of one parameter in the table
markdown_parameter(endpoint, param) ==
    LET params == endpoint.description.v.parameters
        desc == IF param.name \in DOMAIN params THEN params[param.name] ELSE ""
    IN  "| " \o param.name \o " | " \o Str(param.type) \o " | "
        \o (IF param.required THEN "Yes" ELSE "No")
        \o " | " \o desc \o " |"

\* the entries appended to docs for one endpoint whose description is a dict
markdown_endpoint(endpoint) ==
    LET doc == endpoint.description.v
    IN  <<"### " \o Upper(endpoint.method) \o "\n",
          doc.description \o "\n">>
        \o (IF endpoint.auth_required
            THEN <<"**Requires Authentication**\n">> ELSE <<>>)
        \o (IF endpoint.parameters # <<>>
            THEN <<"\n#### Parameters\n",
                   "| Name | Type | Required | Description |",
                   "|------|------|----------|-------------|">>
                 \o [i \in 1..Len(endpoint.parameters) |->
                        markdown_parameter(endpoint, endpoint.parameters[i])]
            ELSE <<>>)
        \o (IF DOMAIN endpoint.response # {}
            THEN <<"\n#### Response\n",
                   "Type: " \o endpoint.response["type"] \o "\n",
                   "Description: " \o doc.returns \o "\n">>
            ELSE <<>>)
        \o (IF doc.raises # <<>>
            THEN <<"\n#### Errors\n">>
                 \o [i \in 1..Len(doc.raises) |-> "- " \o doc.raises[i] \o "\n"]
            ELSE <<>>)
        \o <<"\n---\n">>

\* the inner loop: for endpoint in endpoints
RECURSIVE markdown_endpoints(_, _)
markdown_endpoints(st, eps) ==
    IF eps = <<>> \/ st.raised THEN st
    ELSE IF Head(eps).description.t # "dict"
    THEN [st EXCEPT !.raised = TRUE, !.exc = "AttributeError"]
    ELSE markdown_endpoints([st EXCEPT !.docs = @ \o markdown_endpoint(Head(eps))],
                            Tail(eps))

\* the outer loop: for path, endpoints in grouped_endpoints.items()
RECURSIVE markdown_paths(_, _)
markdown_paths(st, grouped) ==
    IF grouped = <<>> \/ st.raised THEN st
    ELSE markdown_paths(
             markdown_endpoints(
                 [st EXCEPT !.docs = Append(@, "## " \o Str(Head(grouped).path)
                                               \o "\n")],
                 Head(grouped).endpoints),
             Tail(grouped))

\* the list docs when the function reaches its return statement
markdown_docs_list(eps) ==
    markdown_paths([docs |-> <<"# API Documentation\n\n">>,
                    raised |-> FALSE, exc |-> "none"],
                   group_loop(<<>>, eps))

\* [raised, exc, value]
generate_markdown_docs(eps) ==
    LET st == markdown_docs_list(eps)
    IN  [raised |-> st.raised, exc |-> st.exc,
         value |-> IF st.raised THEN None ELSE PyStr(Join(st.docs, "\n"))]

(***************************************************************************)
(* analyze_api_code and _get_methods_distribution                          *)
(***************************************************************************)
RECURSIVE _get_methods_distribution(_)
_get_methods_distribution(eps) ==
    IF eps = <<>> THEN EmptyDict
    ELSE LET distribution == _get_methods_distribution(SubSeq(eps, 1, Len(eps) - 1))
             method == Upper(eps[Len(eps)].method)
         IN  (method :> (IF method \in DOMAIN distribution THEN distribution[method] ELSE 0) + 1)
             @@ distribution

\* sum(1 for e in self.endpoints if e.auth_required)
RECURSIVE auth_required_count(_)
auth_required_count(eps) ==
    IF eps = <<>> THEN 0
    ELSE (IF Head(eps).auth_required THEN 1 ELSE 0) + auth_required_count(Tail(eps))

\* a slip of analyze_api_code: a call whose emitter fails takes back the
\* records its parse appended
analyze_api_code_rollback(eps, code) ==
    LET parsed == parse_fastapi_app(eps, code)
        now == parsed.endpoints
        openapi == generate_openapi_spec(now)
        markdown == generate_markdown_docs(now)
        failed == parsed.raised \/ openapi.raised \/ markdown.raised
    IN  [endpoints |-> IF failed THEN eps ELSE now,
         raised |-> FALSE,
         value |-> IF failed
                   THEN PyDict(EmptyDict)
                   ELSE PyDict([endpoints_count |-> Len(now),
                                auth_required_count |-> auth_required_count(now),
                                methods_distribution |-> _get_methods_distribution(now),
                                openapi_spec |-> openapi.value,
                                markdown_docs |-> markdown.value])]

\* a slip of analyze_api_code: each call starts from an empty catalog
analyze_api_code_fresh_catalog(eps, code) ==
    LET parsed == parse_fastapi_app(<<>>, code)
        now == parsed.endpoints
        openapi == generate_openapi_spec(now)
        markdown == generate_markdown_docs(now)
    IN  [endpoints |-> now,
         raised |-> FALSE,
         value |-> IF parsed.raised \/ openapi.raised \/ markdown.raised
                   THEN PyDict(EmptyDict)
                   ELSE PyDict([endpoints_count |-> Len(now),
                                auth_required_count |-> auth_required_count(now),
                                methods_distribution |-> _get_methods_distribution(now),
                                openapi_spec |-> openapi.value,
                                markdown_docs |-> markdown.value])]

\* [endpoints, raised, value]: an exception of an emitter is caught and {} returned
analyze_api_code(eps, code) ==
    LET parsed == parse_fastapi_app(eps, code)
        now == parsed.endpoints
        openapi == generate_openapi_spec(now)
        markdown == generate_markdown_docs(now)
    IN  [endpoints |-> now,
         raised |-> FALSE,
         value |-> IF parsed.raised \/ openapi.raised \/ markdown.raised
                   THEN PyDict(EmptyDict)
                   ELSE PyDict([endpoints_count |-> Len(now),
                                auth_required_count |-> auth_required_count(now),
                                methods_distribution |-> _get_methods_distribution(now),
                                openapi_spec |-> openapi.value,
                                markdown_docs |-> markdown.value])]

(***************************************************************************)
(* The source texts given to the generator, as their syntax trees          *)
(***************************************************************************)
\* @<obj>.<attr>("<path>")
route(obj, attr, path) ==
    Call(Attribute(Name(obj), attr), <<Constant(PyStr(path))>>, <<>>)

\* @<obj>.<attr>(path=<value>)
route_kw(obj, attr, value) ==
    Call(Attribute(Name(obj), attr), <<>>, <<keyword("path", value)>>)

\* @requires_auth()
marker == Call(Name("requires_auth"), <<>>, <<>>)

\* @obj.get("/x/{id}") then @requires_auth()
get_item ==
    FunctionDef("get_item",
        <<route("obj", "get", "/x/{id}"), marker>>,
        arguments(<<arg("self", NoNode), arg("id", Name("int")), arg("q", NoNode)>>,
                  <<Constant(PyInt("3"))>>),
        NoNode,
        PyStr("Does X.\nParameters:\nid: the id\nReturns:\nThe item."),
        <<>>)

\* @requires_auth() then @router.post("/a")
create_item ==
    FunctionDef("create_item",
        <<marker, route("router", "post", "/a")>>,
        arguments(<<arg("self", NoNode),
                    arg("a", Subscript(Name("List"), Name("int")))>>, <<>>),
        Name("Item"),
        PyStr("Create.\nRaises:\nValueError"),
        <<>>)

\* @deco1 then @router.post("/a"): the same path and method as create_item
make_item ==
    FunctionDef("make_item",
        <<Name("deco1"), route("router", "post", "/a")>>,
        arguments(<<arg("self", NoNode)>>, <<>>),
        NoNode,
        PyStr("Make."),
        <<>>)

\* a route handler without documentation comment
list_items ==
    FunctionDef("list_items",
        <<route("router", "get", "/dup")>>,
        arguments(<<arg("self", NoNode), arg("id", NoNode)>>, <<>>),
        NoNode, None, <<>>)

\* @cache() then @app.GET("/x/{id}"): the path and method of get_item, a called
\* bare name that is not the marker
read_item ==
    FunctionDef("read_item",
        <<Call(Name("cache"), <<>>, <<>>), route("app", "GET", "/x/{id}")>>,
        arguments(<<arg("self", NoNode), arg("x", NoNode), arg("id", Name("str"))>>,
                  <<>>),
        NoNode,
        PyStr("Read."),
        <<>>)

\* @requires_auth (not called) then @sec.requires_auth("/s"): an attribute callee
secured ==
    FunctionDef("secured",
        <<Name("requires_auth"), route("sec", "requires_auth", "/s")>>,
        arguments(<<>>, <<>>),
        NoNode,
        PyStr("Secured."),
        <<>>)

\* @router.put(path=5): the path keyword holds a constant that is no string
put_item ==
    FunctionDef("put_item",
        <<route_kw("router", "put", Constant(PyInt("5")))>>,
        arguments(<<arg("self", NoNode), arg("n", NoNode)>>, <<>>),
        NoNode,
        PyStr("Put."),
        <<>>)

\* no decorator at all
helper ==
    FunctionDef("helper", <<>>, arguments(<<arg("x", NoNode)>>, <<>>), NoNode,
                PyStr("Helps."), <<>>)

\* @router.get(path=PREFIX): the path keyword is a name, not a literal
named_path ==
    FunctionDef("named_path",
        <<route_kw("router", "get", Name("PREFIX"))>>,
        arguments(<<arg("self", NoNode)>>, <<>>), NoNode, PyStr("Named."), <<>>)

\* @router.get(""): an empty path
empty_path ==
    FunctionDef("empty_path",
        <<route("router", "get", "")>>,
        arguments(<<arg("self", NoNode)>>, <<>>), NoNode, PyStr("Empty."), <<>>)

\* @router.get("/n") then @router.get(path=ALIAS): a literal path, then a path
\* keyword that is a name
aliased ==
    FunctionDef("aliased",
        <<route("router", "get", "/n"), route_kw("router", "get", Name("ALIAS"))>>,
        arguments(<<arg("self", NoNode)>>, <<>>), NoNode, PyStr("Aliased."), <<>>)

\* @router.get("/m") then @cache.cached(): two calls of an attribute, the last
\* one without path
merged ==
    FunctionDef("merged",
        <<route("router", "get", "/m"),
          Call(Attribute(Name("cache"), "cached"), <<>>, <<>>)>>,
        arguments(<<arg("self", NoNode)>>, <<>>), NoNode, PyStr("Merged."), <<>>)

\* @router.get("/old") then @router.post("/new"): two routes, each with a path
moved ==
    FunctionDef("moved",
        <<route("router", "get", "/old"), route("router", "post", "/new")>>,
        arguments(<<arg("self", NoNode)>>, <<>>), NoNode, PyStr("Moved."), <<>>)

\* a class whose body holds one route handler and one helper
Items == ClassDef("Items", <<make_item, helper>>)

Codes ==
    { SyntaxErrorText,
      Module(<<helper, named_path, empty_path>>),
      Module(<<get_item>>),
      Module(<<create_item>>),
      Module(<<make_item>>),
      Module(<<list_items>>),
      Module(<<read_item>>),
      Module(<<secured>>),
      Module(<<put_item>>),
      Module(<<create_item, make_item>>),
      Module(<<Items, get_item>>) }

\* @router.get("/items", "/all"): two string literals as positional arguments
second_literal ==
    FunctionDef("second_literal",
        <<Call(Attribute(Name("router"), "get"),
               <<Constant(PyStr("/items")), Constant(PyStr("/all"))>>, <<>>)>>,
        arguments(<<arg("self", NoNode)>>, <<>>), NoNode, PyStr("Second."), <<>>)

\* @router.get("/pos", path="/kw"): a literal first argument and a path keyword
keyword_over ==
    FunctionDef("keyword_over",
        <<Call(Attribute(Name("router"), "get"),
               <<Constant(PyStr("/pos"))>>, <<keyword("path", Constant(PyStr("/kw")))>>)>>,
        arguments(<<arg("self", NoNode)>>, <<>>), NoNode, PyStr("Keyword."), <<>>)

\* a class whose body holds a handler with a path keyword that is a name, and
\* a route handler
Routes == ClassDef("Routes", <<aliased, get_item>>)

\* @router.get("/items/{id}") on def item_by_id(id): a handler at module level,
\* which has no receiver
item_by_id ==
    FunctionDef("item_by_id", <<route("router", "get", "/items/{id}")>>,
                arguments(<<arg("id", NoNode)>>, <<>>), NoNode, PyStr("By id."), <<>>)

\* @router.get("/async") on async def fetch(self), and a class that holds it
fetch ==
    AsyncFunctionDef("fetch", <<route("router", "get", "/async")>>,
                     arguments(<<arg("self", NoNode)>>, <<>>), NoNode, PyStr("Fetches."),
                     <<>>)

AsyncRoutes == ClassDef("AsyncRoutes", <<fetch, make_item>>)

\* def factory(): with the handler moved defined in its body
factory ==
    FunctionDef("factory", <<>>, arguments(<<>>, <<>>), NoNode, PyStr("Builds."),
                <<moved>>)

\* class Outer: class Inner: with the handler merged in the body of Inner
Outer == ClassDef("Outer", <<ClassDef("Inner", <<merged>>)>>)

\* further sources: handlers that stack several calls of an attribute or
\* offer several path candidates, nested and async definitions
StackedCodes ==
    { Module(<<create_item, aliased, make_item>>),
      Module(<<second_literal, keyword_over>>),
      Module(<<factory, Outer>>),
      Module(<<fetch, moved>>),
      Module(<<AsyncRoutes>>),
      Module(<<item_by_id>>),
      Module(<<aliased>>),
      Module(<<merged>>),
      Module(<<moved>>),
      Module(<<make_item>>),
      Module(<<moved, merged>>),
      Module(<<Routes>>) }

(***************************************************************************)
(* The generator as a state machine                                        *)
(*   endpoints  self.endpoints, the catalog                                *)
(*   lastOp     the method called last                                     *)
(*   lastCode   the source given to it (NoNode when it takes none)         *)
(*   before     self.endpoints when that call started                      *)
(*   ret        what the call returned, or that it raised                  *)
(***************************************************************************)
Init ==
    /\ endpoints = <<>>
    /\ lastOp = "__init__"
    /\ users = EmptyDict
    /\ lastCode = NoNode
    /\ before = <<>>
    /\ ret = [raised |-> FALSE, value |-> None]

ParseFastapiApp(code) ==
    LET r == parse_fastapi_app(endpoints, code)
    IN  /\ Len(r.endpoints) <= MaxCatalog
        /\ endpoints' = r.endpoints
        /\ UNCHANGED users
        /\ lastOp' = "parse_fastapi_app"
        /\ lastCode' = code
        /\ before' = endpoints
        /\ ret' = [raised |-> r.raised, value |-> None]

GenerateOpenapiSpec ==
    LET r == generate_openapi_spec(endpoints)
    IN  /\ lastOp' = "generate_openapi_spec"
        /\ lastCode' = NoNode
        /\ before' = endpoints
        /\ ret' = [raised |-> r.raised, value |-> r.value]
        /\ UNCHANGED <<endpoints, users>>

GenerateMarkdownDocs ==
    LET r == generate_markdown_docs(endpoints)
    IN  /\ lastOp' = "generate_markdown_docs"
        /\ lastCode' = NoNode
        /\ before' = endpoints
        /\ ret' = [raised |-> r.raised, value |-> r.value]
        /\ UNCHANGED <<endpoints, users>>

AnalyzeApiCode(code) ==
    LET r == analyze_api_code(endpoints, code)
    IN  /\ Len(r.endpoints) <= MaxCatalog
        /\ endpoints' = r.endpoints
        /\ UNCHANGED users
        /\ lastOp' = "analyze_api_code"
        /\ lastCode' = code
        /\ before' = endpoints
        /\ ret' = [raised |-> r.raised, value |-> r.value]

GetMethodsDistribution ==
    /\ UNCHANGED users
    /\ lastOp' = "_get_methods_distribution"
    /\ lastCode' = NoNode
    /\ before' = endpoints
    /\ ret' = [raised |-> FALSE, value |-> PyDict(_get_methods_distribution(endpoints))]
    /\ UNCHANGED endpoints

Next ==
    \/ \E code \in Codes : ParseFastapiApp(code)
    \/ GenerateOpenapiSpec
    \/ GenerateMarkdownDocs
    \/ \E code \in Codes : AnalyzeApiCode(code)
    \/ GetMethodsDistribution

Spec == Init /\ [][Next]_vars

\* the generator given the sources of StackedCodes
StackedNext ==
    \/ \E code \in StackedCodes : ParseFastapiApp(code)
    \/ GenerateOpenapiSpec
    \/ GenerateMarkdownDocs
    \/ \E code \in StackedCodes : AnalyzeApiCode(code)
    \/ GetMethodsDistribution

StackedSpec == Init /\ [][StackedNext]_vars

(***************************************************************************)
(* Vocabulary of the properties                                            *)
(***************************************************************************)
IsPrefix(a, b) == Len(a) <= Len(b) /\ SubSeq(b, 1, Len(a)) = a

Parsing == lastOp \in {"parse_fastapi_app", "analyze_api_code"}

\* the records the last call appended
Appended == SubSeq(endpoints, Len(before) + 1, Len(endpoints))

\* the function definitions of a source, at any depth
Functions(code) ==
    IF code.kind # "Module" THEN {}
    ELSE {n \in {walk(<<code>>)[i] : i \in DOMAIN walk(<<code>>)} :
             n.kind \in {"FunctionDef", "AsyncFunctionDef"}}

\* the decorators of h that are calls of an attribute: @obj.attr(...)
RouteCalls(h) ==
    {d \in {h.decorator_list[i] : i \in DOMAIN h.decorator_list} :
        d.kind = "Call" /\ d.func.kind = "Attribute"}

\* the constants a route decorator of h offers as path
PathCandidates(h) ==
    UNION {{d.args[i].value : i \in {j \in DOMAIN d.args : d.args[j].kind = "Constant"}}
           \cup {d.keywords[i].value.value :
                    i \in {j \in DOMAIN d.keywords :
                              /\ d.keywords[j].arg = "path"
                              /\ d.keywords[j].value.kind = "Constant"}}
           : d \in RouteCalls(h)}

\* h has no decorator that gives a method, or none that gives a non-empty path
Undetermined(h) ==
    RouteCalls(h) = {} \/ \A c \in PathCandidates(h) : ~Truthy(c)

(***************************************************************************)
(* C1: every record of the catalog has a non-empty path and a non-empty   *)
(* method; parsing never raises; and a parse of a source whose functions  *)
(* all lack a method or a non-empty path appends nothing, so that a fresh *)
(* catalog stays empty.                                                    *)
(***************************************************************************)
C1_RecordsHavePathAndMethod ==
    /\ \A i \in DOMAIN endpoints :
          Truthy(endpoints[i].path) /\ endpoints[i].method # ""
    /\ lastOp = "parse_fastapi_app" => ~ret.raised
    /\ (Parsing /\ \A h \in Functions(lastCode) : Undetermined(h))
          => endpoints = before

\* a fresh generator parsed a source that holds functions, none of them routed
C1_Witness ==
    /\ lastOp = "parse_fastapi_app"
    /\ Functions(lastCode) # {}
    /\ \A h \in Functions(lastCode) : Undetermined(h)
    /\ \E h \in Functions(lastCode) : RouteCalls(h) # {}
    /\ before = <<>>
    /\ endpoints = <<>>

(***************************************************************************)
(* C2: when the source text cannot be parsed, parse_fastapi_app returns   *)
(* normally and the catalog is what it was before the call.               *)
(***************************************************************************)
C2_SyntaxErrorIsSilent ==
    (lastOp = "parse_fastapi_app" /\ lastCode = SyntaxErrorText)
        => ~ret.raised /\ endpoints = before

\* an unparseable text was given to a generator that already holds records
C2_Witness ==
    /\ lastOp = "parse_fastapi_app"
    /\ lastCode = SyntaxErrorText
    /\ Len(before) > 0
    /\ endpoints = before

(***************************************************************************)
(* C3: the catalog before an operation is a prefix of the catalog after   *)
(* it, and the emitters and _get_methods_distribution leave it unchanged. *)
(***************************************************************************)
C3_CatalogOnlyGrows ==
    /\ IsPrefix(before, endpoints)
    /\ lastOp \in {"generate_openapi_spec", "generate_markdown_docs",
                   "_get_methods_distribution"} => endpoints = before

\* a call appended records to a catalog that already held some
C3_Witness ==
    /\ lastOp = "analyze_api_code"
    /\ Len(before) > 0
    /\ Len(endpoints) > Len(before)

(***************************************************************************)
(* The handlers behind the records of the last parse                       *)
(***************************************************************************)
IsFunctionDef(n) == n.kind = "FunctionDef"

\* the function definitions one pass hands to _parse_endpoint, in order: a
\* class hands over the functions of its body, a function itself
RECURSIVE DispatchedFrom(_)
DispatchedFrom(nodes) ==
    IF nodes = <<>> THEN <<>>
    ELSE LET n == Head(nodes)
         IN  (IF n.kind = "ClassDef" THEN SelectSeq(n.body, IsFunctionDef)
              ELSE IF n.kind = "FunctionDef" THEN <<n>>
              ELSE <<>>)
             \o DispatchedFrom(Tail(nodes))

Dispatched(code) ==
    IF code.kind = "Module" THEN DispatchedFrom(walk(<<code>>)) ELSE <<>>

Yields(h) == _parse_endpoint(<<>>, h) # <<>>

\* the handlers of the records in Appended, in the same order
Origins == SelectSeq(Dispatched(lastCode), Yields)

EmptyParsedDoc ==
    [description |-> "", parameters |-> EmptyDict, returns |-> "", raises |-> <<>>]

Emitting == lastOp \in {"generate_openapi_spec", "generate_markdown_docs"}

(***************************************************************************)
(* C4: the record of a route handler without documentation comment        *)
(* carries an empty ParsedDoc, and generate_openapi_spec and              *)
(* generate_markdown_docs complete without raising on a catalog that      *)
(* holds such a record (paths being strings).                             *)
(***************************************************************************)
C4_UndocumentedHandlerEmits ==
    /\ Parsing =>
          \A i \in DOMAIN Appended :
              (i \in DOMAIN Origins /\ Origins[i].docstring = None)
                  => Appended[i].description = PyDict(EmptyParsedDoc)
    /\ (Emitting /\ \A i \in DOMAIN endpoints : endpoints[i].path.t = "str")
          => ~ret.raised

RECURSIVE SumOver(_, _)
SumOver(f, keys) ==
    IF keys = {} THEN 0
    ELSE LET k == CHOOSE k \in keys : TRUE IN f[k] + SumOver(f, keys \ {k})

(***************************************************************************)
(* C5: analyze_api_code returns, for every source text, a summary whose   *)
(* endpoints_count is the size of the catalog after the call, whose       *)
(* auth_required_count is the number of records with auth_required, and   *)
(* whose methods_distribution maps each upper-cased method to its number  *)
(* of occurrences, its values summing to endpoints_count.                 *)
(***************************************************************************)
C5_AnalyzeReturnsSummary ==
    lastOp = "analyze_api_code" =>
        /\ ~ret.raised
        /\ ret.value.t = "dict"
        /\ {"endpoints_count", "auth_required_count", "methods_distribution"}
              \subseteq DOMAIN ret.value.v
        /\ ret.value.v.endpoints_count = Len(endpoints)
        /\ ret.value.v.auth_required_count
              = Cardinality({i \in DOMAIN endpoints : endpoints[i].auth_required})
        /\ LET dist == ret.value.v.methods_distribution
           IN  /\ DOMAIN dist = {Upper(endpoints[i].method) : i \in DOMAIN endpoints}
               /\ \A m \in DOMAIN dist :
                     dist[m] = Cardinality({i \in DOMAIN endpoints :
                                               Upper(endpoints[i].method) = m})
               /\ SumOver(dist, DOMAIN dist) = Len(endpoints)

HasMarker(h) ==
    \E i \in DOMAIN h.decorator_list :
        LET d == h.decorator_list[i]
        IN  d.kind = "Call" /\ d.func.kind = "Name" /\ d.func.id = "requires_auth"

(***************************************************************************)
(* C6: a record's auth_required is true exactly when a decorator of its   *)
(* handler is a call of the bare name requires_auth, wherever it sits;    *)
(* an uncalled name and a call of an attribute never set it.              *)
(* @obj.get("/x/{id}") with the marker gives get, /x/{id}, true; @deco1   *)
(* then @router.post("/a") gives post, /a, false.                         *)
(***************************************************************************)
C6_AuthRequiredIffMarker ==
    Parsing =>
        /\ Len(Appended) = Len(Origins)
        /\ \A i \in DOMAIN Appended :
              Appended[i].auth_required <=> HasMarker(Origins[i])
        /\ lastCode = Module(<<get_item>>) =>
              /\ Len(Appended) = 1
              /\ Appended[1].method = "get"
              /\ Appended[1].path = PyStr("/x/{id}")
              /\ Appended[1].auth_required
        /\ lastCode = Module(<<make_item>>) =>
              /\ Len(Appended) = 1
              /\ Appended[1].method = "post"
              /\ Appended[1].path = PyStr("/a")
              /\ ~Appended[1].auth_required

\* one pass appended a record with the marker after its route, and the pass
\* before it one whose handler calls another bare name and no marker
C6_Witness ==
    /\ lastOp = "parse_fastapi_app"
    /\ lastCode = Module(<<get_item>>)
    /\ Appended # <<>>
    /\ Appended[1].auth_required
    /\ \E i \in DOMAIN before :
          /\ ~before[i].auth_required
          /\ before[i].path = PyStr("/x/{id}")

ExpectedParameters(h) ==
    [k \in 1..(Len(h.args.args) - 1) |->
        LET a == h.args.args[k + 1]
        IN  [name |-> a.arg,
             type |-> IF a.annotation = NoNode THEN None
                      ELSE PyStr(_get_type_hint(a.annotation)),
             required |-> TRUE]]

(***************************************************************************)
(* C7: the parameters of a record are the positional parameters of its    *)
(* handler after the first, in declaration order, each with required true *)
(* (default or not) and type the rendered annotation, or None without     *)
(* annotation.                                                             *)
(***************************************************************************)
C7_ParametersAfterFirst ==
    Parsing =>
        /\ Len(Appended) = Len(Origins)
        /\ \A i \in DOMAIN Appended :
              Appended[i].parameters = ExpectedParameters(Origins[i])

\* a record of a handler with an annotated parameter, a parameter without
\* annotation and a default value
C7_Witness ==
    /\ Parsing
    /\ \E i \in DOMAIN Appended :
          /\ i \in DOMAIN Origins
          /\ Origins[i].args.defaults # <<>>
          /\ Len(Appended[i].parameters) = 2
          /\ Appended[i].parameters[1].type = PyStr("int")
          /\ Appended[i].parameters[2].type = None

(***************************************************************************)
(* The documents the last call returned                                    *)
(***************************************************************************)
Analyzed == lastOp = "analyze_api_code" /\ DOMAIN ret.value.v # {}

HasOpenApiDoc == (lastOp = "generate_openapi_spec" /\ ~ret.raised) \/ Analyzed

OpenApiPaths ==
    IF lastOp = "analyze_api_code" THEN ret.value.v.openapi_spec.v.paths
    ELSE ret.value.v.paths

HasMarkdownDoc == (lastOp = "generate_markdown_docs" /\ ~ret.raised) \/ Analyzed

MarkdownDoc ==
    IF lastOp = "analyze_api_code" THEN ret.value.v.markdown_docs.v ELSE ret.value.v

\* the catalog holds two different records with one path and one method
HasDuplicate ==
    \E i, j \in DOMAIN endpoints :
        /\ i < j
        /\ endpoints[i].path = endpoints[j].path
        /\ endpoints[i].method = endpoints[j].method
        /\ endpoints[i] # endpoints[j]

BracedNameOccurs(path, name) ==
    \E k \in 1..Len(path) :
        /\ k + Len(name) + 1 <= Len(path)
        /\ SubSeq(path, k, k) = "{"
        /\ SubSeq(path, k + 1, k + Len(name)) = name
        /\ SubSeq(path, k + Len(name) + 1, k + Len(name) + 1) = "}"

(***************************************************************************)
(* C8: in the OpenAPI document every emitted parameter has location path  *)
(* exactly when {<its name>} occurs in the path template of its endpoint, *)
(* and query otherwise.                                                    *)
(***************************************************************************)
C8_ParameterLocation ==
    HasOpenApiDoc =>
        \A p \in DOMAIN OpenApiPaths :
            \A m \in DOMAIN OpenApiPaths[p] :
                \A i \in DOMAIN OpenApiPaths[p][m].parameters :
                    LET param == OpenApiPaths[p][m].parameters[i]
                    IN  param.in = IF BracedNameOccurs(p.v, param.name) THEN "path"
                                   ELSE "query"

\* a document with a path parameter and with a query parameter whose name
\* occurs in the path without braces
C8_Witness ==
    /\ lastOp = "generate_openapi_spec"
    /\ ~ret.raised
    /\ \E p \in DOMAIN OpenApiPaths :
          \E m \in DOMAIN OpenApiPaths[p] :
              \E i, j \in DOMAIN OpenApiPaths[p][m].parameters :
                  /\ OpenApiPaths[p][m].parameters[i].in = "path"
                  /\ OpenApiPaths[p][m].parameters[j].in = "query"
                  /\ Contains(p.v, OpenApiPaths[p][m].parameters[j].name)

LastIndex(path, method) ==
    LET same == {j \in DOMAIN endpoints :
                    endpoints[j].path = path /\ endpoints[j].method = method}
    IN  CHOOSE j \in same : \A k \in same : k <= j

RECURSIVE Blocks(_)
Blocks(eps) ==
    IF eps = <<>> THEN <<>> ELSE markdown_endpoint(Head(eps)) \o Blocks(Tail(eps))

\* the section of path p: its heading, then every record of p in catalog order
Section(p) ==
    <<"## " \o Str(p) \o "\n">> \o Blocks(SelectSeq(endpoints, LAMBDA e : e.path = p))

(***************************************************************************)
(* C9: with several records of one path and method, paths[path][method]   *)
(* of the OpenAPI document is the entry of the last of them in catalog    *)
(* order, one entry per method; duplicates raise no error (an emitter     *)
(* completes whenever each record alone can be emitted); and the Markdown *)
(* document renders each of those records, in catalog order.              *)
(***************************************************************************)
C9_DuplicatesLastWinsAndAllRendered ==
    /\ HasOpenApiDoc =>
          /\ DOMAIN OpenApiPaths = {endpoints[i].path : i \in DOMAIN endpoints}
          /\ \A i \in DOMAIN endpoints :
                LET e == endpoints[i]
                IN  /\ e.method \in DOMAIN OpenApiPaths[e.path]
                    /\ OpenApiPaths[e.path][e.method]
                          = openapi_operation(endpoints[LastIndex(e.path, e.method)])
    /\ (lastOp = "generate_openapi_spec"
        /\ \A i \in DOMAIN endpoints :
              /\ endpoints[i].description.t = "dict"
              /\ endpoints[i].parameters = <<>> \/ endpoints[i].path.t = "str")
          => ~ret.raised
    /\ (lastOp = "generate_markdown_docs"
        /\ \A i \in DOMAIN endpoints : endpoints[i].description.t = "dict")
          => ~ret.raised
    /\ HasMarkdownDoc =>
          \A i, j \in DOMAIN endpoints :
              (i < j /\ endpoints[i].path = endpoints[j].path
                     /\ endpoints[i].method = endpoints[j].method)
                  => Contains(MarkdownDoc, Join(Section(endpoints[i].path), "\n"))

\* both documents of a catalog with two different records of one path and method
C9_Witness ==
    /\ Analyzed
    /\ HasDuplicate
    /\ Len(endpoints) = 3

FirstSeen ==
    {i \in DOMAIN endpoints :
        \A j \in 1..(i - 1) : endpoints[j].path # endpoints[i].path}

RECURSIVE Sections(_)
Sections(indexes) ==
    IF indexes = {} THEN <<>>
    ELSE LET first == CHOOSE i \in indexes : \A j \in indexes : i <= j
         IN  Section(endpoints[first].path) \o Sections(indexes \ {first})

Occurrences(s, sub) ==
    Cardinality({k \in 1..(Len(s) - Len(sub) + 1) : SubSeq(s, k, k + Len(sub) - 1) = sub})

(***************************************************************************)
(* C10: the Markdown document lists the path sections in the order in     *)
(* which the paths first appear in the catalog and, within a section, the *)
(* records of the path in catalog order; every record is rendered in one  *)
(* section, once.                                                          *)
(***************************************************************************)
C10_MarkdownOrder ==
    HasMarkdownDoc =>
        /\ MarkdownDoc = Join(<<"# API Documentation\n\n">> \o Sections(FirstSeen), "\n")
        /\ Occurrences(MarkdownDoc, "\n---\n") = Len(endpoints)
        /\ Occurrences(MarkdownDoc, "\n## ") = Cardinality(FirstSeen)

\* a document of three records whose first and last share a path the second
\* does not have
C10_Witness ==
    /\ lastOp = "generate_markdown_docs"
    /\ ~ret.raised
    /\ Len(endpoints) = 3
    /\ endpoints[1].path = endpoints[3].path
    /\ endpoints[1].path # endpoints[2].path
    /\ endpoints[1] # endpoints[3]


(***************************************************************************)
(* The helper methods called on their own                                  *)
(*   lastCode   the argument: a documentation comment or an annotation     *)
(*   lastOp     "__init__" until the helper is called, then its name       *)
(*   ret        what the helper returned                                   *)
(* The catalog is not touched by a helper and stays empty.                 *)
(***************************************************************************)
MaxPart == 2

MaxLines == 3

MaxDepth == 2

\* the sequences of at most n elements of S
SeqUpTo(S, n) == UNION {[1..k -> S] : k \in 0..n}

\* lines of free text, as written and as str.strip() leaves them
TextLines ==
    { [raw |-> " Does X. ", trimmed |-> "Does X."],
      [raw |-> "The result.", trimmed |-> "The result."],
      [raw |-> "  ", trimmed |-> ""] }

\* the free text of a Returns section
ReturnLines == {l \in TextLines : l.trimmed = "The result."}

\* lines `name: text` of a Parameters section; the text may hold colons
ParamLines ==
    { [raw |-> "foo: the foo: value", name |-> "foo", text |-> "the foo: value"],
      [raw |-> " bar :b", name |-> "bar", text |-> "b"] }

\* a documentation comment of the shape: description lines, the Parameters
\* header and its lines (no name twice), the Returns header and its lines
StructuredDocs ==
    { d \in [desc : SeqUpTo(TextLines, MaxPart),
             params : SeqUpTo(ParamLines, MaxPart),
             rets : SeqUpTo(ReturnLines, MaxPart)] :
        \A i, j \in DOMAIN d.params : d.params[i].name = d.params[j].name => i = j }

Raw(lines) == [i \in DOMAIN lines |-> lines[i].raw]

DocText(d) ==
    Join(Raw(d.desc) \o <<"Parameters:">> \o Raw(d.params) \o <<"Returns:">> \o Raw(d.rets),
         "\n")

DocTextOf == [d \in StructuredDocs |-> DocText(d)]

\* any lines at all: headers in any case, free text, a keyword in the middle
\* of a line, lines of a Parameters section that are no `name: text`
FreeLines ==
    {" Does X. ", "", "PARAMETERS:", "foo: the foo: value", "id - the id",
     "returns: the item", "Raises:", "see Returns: below"}

FreeDocs == {Join(lines, "\n") : lines \in SeqUpTo(FreeLines, MaxLines)}

Docstrings == {PyStr(DocTextOf[d]) : d \in StructuredDocs} \cup {PyStr(t) : t \in FreeDocs}

\* the annotations: names, constants and an attribute as leaves, and up to
\* MaxDepth subscripts around them, with one type argument or with two
AnnotationLeaves ==
    { Name("int"), Constant(PyStr("Item")), Constant(None),
      Attribute(Name("typing"), "Any") }

AnnotationOuters ==
    { Name("List"), Name("Dict"), Attribute(Name("typing"), "Optional") }

RECURSIVE AnnotationsOfDepth(_)
AnnotationsOfDepth(d) ==
    IF d = 0 THEN AnnotationLeaves
    ELSE LET inner == AnnotationsOfDepth(d - 1)
         IN  AnnotationLeaves
             \cup {Subscript(o, a) : o \in AnnotationOuters, a \in inner}
             \cup {Subscript(o, Tuple(<<Name("str"), a>>)) :
                      o \in AnnotationOuters, a \in inner}

Annotations == AnnotationsOfDepth(MaxDepth)

(***************************************************************************)
(* ast.parse of the text of an annotation, as an expression: names, None, *)
(* True, False, decimal integers, subscripts, attributes and tuples. Any  *)
(* other text is rejected (the rest of the expression syntax is left out) *)
(***************************************************************************)
Keywords ==
    {"and", "as", "assert", "async", "await", "break", "class", "continue", "def",
     "del", "elif", "else", "except", "finally", "for", "from", "global", "if",
     "import", "in", "is", "lambda", "nonlocal", "not", "or", "pass", "raise",
     "return", "try", "while", "with", "yield"}

IsDigit(c) == c \in CharSet(Digits)

\* the character of s at i ("" past the end)
CharAt(s, i) == IF i >= 1 /\ i <= Len(s) THEN SubSeq(s, i, i) ELSE ""

Failed == [ok |-> FALSE, node |-> NoNode, pos |-> 0]

Parsed(node, pos) == [ok |-> TRUE, node |-> node, pos |-> pos]

\* a name or a constant that starts at i
parse_atom(s, i) ==
    LET c == CharAt(s, i)
        j == EndOfWord(s, i)
        word == SubSeq(s, i, j - 1)
    IN  IF c = "" \/ ~IsWord(c) THEN Failed
        ELSE IF IsDigit(c)
        THEN IF (\A k \in i..(j - 1) : IsDigit(CharAt(s, k))) /\ (j - i = 1 \/ c # "0")
             THEN Parsed(Constant(PyInt(word)), j)
             ELSE Failed
        ELSE IF word = "None" THEN Parsed(Constant(None), j)
        ELSE IF word \in {"True", "False"} THEN Parsed(Constant(PyBool(word)), j)
        ELSE IF word \in Keywords THEN Failed
        ELSE Parsed(Name(word), j)

RECURSIVE parse_trailers(_, _, _), parse_primary(_, _), parse_elements(_, _, _),
          parse_expression(_, _)

\* the subscripts and attributes that follow node, from i on
parse_trailers(s, node, i) ==
    LET k == EndOfSpaces(s, i)
        c == CharAt(s, k)
    IN  IF c = "["
        THEN LET inner == parse_expression(s, k + 1)
             IN  IF inner.ok /\ CharAt(s, inner.pos) = "]"
                 THEN parse_trailers(s, Subscript(node, inner.node), inner.pos + 1)
                 ELSE Failed
        ELSE IF c = "."
        THEN LET a == EndOfSpaces(s, k + 1)
                 j == EndOfWord(s, a)
                 word == SubSeq(s, a, j - 1)
             IN  IF j > a /\ ~IsDigit(CharAt(s, a))
                       /\ word \notin Keywords \cup {"None", "True", "False"}
                 THEN parse_trailers(s, Attribute(node, word), j)
                 ELSE Failed
        ELSE Parsed(node, k)

parse_primary(s, i) ==
    LET a == parse_atom(s, EndOfSpaces(s, i))
    IN  IF a.ok THEN parse_trailers(s, a.node, a.pos) ELSE Failed

\* the elements of a tuple after a comma, elts being those before it
parse_elements(s, elts, i) ==
    LET k == EndOfSpaces(s, i)
    IN  IF CharAt(s, k) \in {"", "]"} THEN Parsed(Tuple(elts), k)
        ELSE LET p == parse_primary(s, k)
             IN  IF ~p.ok THEN Failed
                 ELSE IF CharAt(s, p.pos) = ","
                 THEN parse_elements(s, Append(elts, p.node), p.pos + 1)
                 ELSE Parsed(Tuple(Append(elts, p.node)), p.pos)

parse_expression(s, i) ==
    LET p == parse_primary(s, i)
    IN  IF ~p.ok THEN Failed
        ELSE IF CharAt(s, p.pos) = "," THEN parse_elements(s, <<p.node>>, p.pos + 1)
        ELSE p

\* ast.parse(text, mode='eval').body; a text that starts with a blank is
\* rejected for its indentation
ast_parse_annotation(text) ==
    LET p == parse_expression(text, 1)
    IN  IF text # "" /\ ~IsSpace(CharAt(text, 1)) /\ p.ok /\ p.pos = Len(text) + 1
        THEN [raised |-> FALSE, tree |-> p.node]
        ELSE [raised |-> TRUE, tree |-> NoNode]

IsDocstring(x) == "t" \in DOMAIN x

HelperInit ==
    /\ endpoints = <<>>
    /\ lastOp = "__init__"
    /\ users = EmptyDict
    /\ lastCode \in Docstrings \cup Annotations
    /\ before = <<>>
    /\ ret = [raised |-> FALSE, value |-> None]

ParseDocstring ==
    /\ lastOp = "__init__"
    /\ IsDocstring(lastCode)
    /\ UNCHANGED users
    /\ lastOp' = "_parse_docstring"
    /\ ret' = [raised |-> FALSE, value |-> PyDict(_parse_docstring(lastCode.v))]
    /\ UNCHANGED <<endpoints, lastCode, before>>

GetTypeHint ==
    /\ lastOp = "__init__"
    /\ ~IsDocstring(lastCode)
    /\ UNCHANGED users
    /\ lastOp' = "_get_type_hint"
    /\ ret' = [raised |-> FALSE, value |-> PyStr(_get_type_hint(lastCode))]
    /\ UNCHANGED <<endpoints, lastCode, before>>

\* the text _get_type_hint returned is parsed as a fresh annotation and that
\* annotation is rendered
RenderAgain ==
    /\ lastOp = "_get_type_hint"
    /\ ~ret.raised
    /\ LET parsed == ast_parse_annotation(ret.value.v)
       IN  /\ lastCode' = (IF parsed.raised THEN SyntaxErrorText ELSE parsed.tree)
           /\ ret' = (IF parsed.raised THEN [raised |-> TRUE, value |-> None]
                      ELSE [raised |-> FALSE,
                            value |-> PyStr(_get_type_hint(parsed.tree))])
    /\ UNCHANGED users
    /\ lastOp' = "_get_type_hint"
    /\ UNCHANGED <<endpoints, before>>

HelperNext ==
    \/ ParseDocstring
    \/ GetTypeHint
    \/ RenderAgain

HelperSpec == HelperInit /\ [][HelperNext]_vars

\* the text of the trimmed non-blank lines, each followed by one space
RECURSIVE Spaced(_)
Spaced(lines) ==
    IF lines = <<>> THEN ""
    ELSE (IF Head(lines).trimmed = "" THEN "" ELSE Head(lines).trimmed \o " ")
         \o Spaced(Tail(lines))

\* the mapping from each name to the text after its first colon
ParamMap(lines) ==
    [n \in {lines[i].name : i \in DOMAIN lines} |->
        (CHOOSE i \in DOMAIN lines : lines[i].name = n) ]

ParamTexts(lines) ==
    [n \in {lines[i].name : i \in DOMAIN lines} |-> lines[ParamMap(lines)[n]].text]

ExpectedDoc(d) ==
    [description |-> Spaced(d.desc), parameters |-> ParamTexts(d.params),
     returns |-> Spaced(d.rets), raises |-> <<>>]

ExpectedDocOf == [d \in StructuredDocs |-> ExpectedDoc(d)]

(***************************************************************************)
(* C11: _parse_docstring of a text made of description lines, the         *)
(* Parameters header with `name: text` lines and the Returns header with  *)
(* text lines returns: the trimmed non-blank description lines each       *)
(* followed by one space; the mapping from each name to the text after    *)
(* its first colon; the returns text built like the description; and no   *)
(* raises entry. The empty text gives the all-empty ParsedDoc.            *)
(***************************************************************************)
C11_StructuredDocstring ==
    lastOp = "_parse_docstring" =>
        /\ ~ret.raised
        /\ \A d \in StructuredDocs :
              lastCode.v = DocTextOf[d] => ret.value = PyDict(ExpectedDocOf[d])
        /\ lastCode.v = "" => ret.value = PyDict(EmptyParsedDoc)

\* the text of the claim's shape with a padded description line, a parameter
\* text that holds a colon, and a returns line, after the call
C11_Witness ==
    /\ lastOp = "_parse_docstring"
    /\ lastCode.v = " Does X. \nParameters:\nfoo: the foo: value\nReturns:\nThe result."
    /\ ret.value.v.description = "Does X. "
    /\ ret.value.v.parameters = ("foo" :> "the foo: value")
    /\ ret.value.v.returns = "The result. "
    /\ ret.value.v.raises = <<>>


\* the section a header line opens ("" when the line is no header)
HeaderOf(line) ==
    IF StartsWith(Lower(line), "parameters:") THEN "parameters"
    ELSE IF StartsWith(Lower(line), "returns:") THEN "returns"
    ELSE IF StartsWith(Lower(line), "raises:") THEN "raises"
    ELSE ""

\* the trimmed lines of the text given to _parse_docstring
GivenLines ==
    LET lines == Split(lastCode.v, "\n") IN [i \in DOMAIN lines |-> Strip(lines[i])]

\* the section line i falls in by its position: that of the last header
\* before it, the description when there is none
SectionAt(i) ==
    LET headers == {j \in 1..(i - 1) : HeaderOf(GivenLines[j]) # ""}
    IN  IF headers = {} THEN "description"
        ELSE HeaderOf(GivenLines[CHOOSE j \in headers : \A k \in headers : k <= j])

\* the line is found in the section of the returned ParsedDoc
RecordedIn(line, section) ==
    LET doc == ret.value.v
    IN  CASE section = "description" -> Contains(doc.description, line \o " ")
          [] section = "returns" -> Contains(doc.returns, line \o " ")
          [] section = "raises" -> \E k \in DOMAIN doc.raises : doc.raises[k] = line
          [] section = "parameters" ->
                \E n \in DOMAIN doc.parameters :
                    StartsWith(line, n) /\ Contains(line, doc.parameters[n])

(***************************************************************************)
(* C12: after _parse_docstring every non-blank line that is no header is  *)
(* recorded in the section its position gives it: the description before  *)
(* the first header, else the section of the last header before it; no    *)
(* such line is discarded.                                                 *)
(***************************************************************************)
C12_NoLineDiscarded ==
    lastOp = "_parse_docstring" =>
        \A i \in DOMAIN GivenLines :
            (GivenLines[i] # "" /\ HeaderOf(GivenLines[i]) = "")
                => RecordedIn(GivenLines[i], SectionAt(i))


(***************************************************************************)
(* Vocabulary of the annotation properties                                 *)
(***************************************************************************)
HintCalled == lastOp = "_get_type_hint" /\ ~ret.raised

\* built from names and subscripts only, a subscript with one type argument
\* or with several (a tuple of them)
RECURSIVE IsGeneric(_)
IsGeneric(node) ==
    CASE node.kind = "Name" -> TRUE
      [] node.kind = "Subscript" ->
            /\ IsGeneric(node.value)
            /\ IF node.slice.kind = "Tuple"
               THEN \A i \in DOMAIN node.slice.elts : IsGeneric(node.slice.elts[i])
               ELSE IsGeneric(node.slice)
      [] OTHER -> FALSE

\* the annotation as Outer[Inner], the type arguments separated by ", "
RECURSIVE Written(_)
Written(node) ==
    CASE node.kind = "Name" -> node.id
      [] node.kind = "Subscript" -> Written(node.value) \o "[" \o Written(node.slice) \o "]"
      [] node.kind = "Tuple" ->
            Join([i \in DOMAIN node.elts |-> Written(node.elts[i])], ", ")

\* the number of nodes of an annotation
RECURSIVE Size(_)
Size(node) ==
    CASE node.kind = "Subscript" -> 1 + Size(node.value) + Size(node.slice)
      [] node.kind = "Tuple" -> 1 + SumOver([i \in DOMAIN node.elts |-> Size(node.elts[i])],
                                            DOMAIN node.elts)
      [] node.kind = "Attribute" -> 1 + Size(node.value)
      [] OTHER -> 1

(***************************************************************************)
(* C13: _get_type_hint renders every annotation built from names and      *)
(* subscripts, a subscript with several type arguments included, as       *)
(* Outer[Inner] with both parts rendered recursively; Dict[str, List[int]]*)
(* gives "Dict[str, List[int]]".                                           *)
(***************************************************************************)
C13_NestedGenericRendered ==
    (HintCalled /\ IsGeneric(lastCode)) => ret.value = PyStr(Written(lastCode))


(***************************************************************************)
(* C14: rendering is idempotent under re-parsing: when the text that      *)
(* _get_type_hint returned for an annotation of any depth is parsed as a  *)
(* fresh annotation and that annotation is rendered, the parse succeeds   *)
(* and the same text is returned.                                          *)
(***************************************************************************)
C14_RenderIdempotent ==
    [][(lastOp = "_get_type_hint" /\ lastOp' = "_get_type_hint")
          => (~ret'.raised /\ ret' = ret)]_vars

\* Dict[List['Item']] was rendered, its text parsed again (the constant comes
\* back as a name) and rendered again
C14_Witness ==
    /\ HintCalled
    /\ lastCode = Subscript(Name("Dict"), Subscript(Name("List"), Name("Item")))
    /\ lastCode \notin Annotations
    /\ ret.value = PyStr("Dict[List[Item]]")

(***************************************************************************)
(* C19: _get_type_hint returns a string for every annotation tree and     *)
(* never raises: the identifier of a name, the text of a constant, for a  *)
(* subscript the rendering of its value and of its slice (both strictly   *)
(* smaller trees) as value[slice], and "Any" for every other node.        *)
(***************************************************************************)
C19_TypeHintTotal ==
    lastOp = "_get_type_hint" =>
        /\ ~ret.raised
        /\ ret.value.t = "str"
        /\ CASE lastCode.kind = "Name" -> ret.value.v = lastCode.id
             [] lastCode.kind = "Constant" -> ret.value.v = Str(lastCode.value)
             [] lastCode.kind = "Subscript" ->
                   /\ Size(lastCode.value) < Size(lastCode)
                   /\ Size(lastCode.slice) < Size(lastCode)
                   /\ ret.value.v = _get_type_hint(lastCode.value) \o "["
                                    \o _get_type_hint(lastCode.slice) \o "]"
             [] OTHER -> ret.value.v = "Any"

\* a subscript two levels deep whose inner slice is a tuple, a node shape
\* without a branch of its own
C19_Witness ==
    /\ HintCalled
    /\ lastCode = Subscript(Name("Dict"),
                            Subscript(Attribute(Name("typing"), "Optional"),
                                      Tuple(<<Name("str"), Constant(None)>>)))
    /\ ret.value = PyStr("Dict[Any[Any]]")


(***************************************************************************)
(* C15: a parameter without annotation is shown with the type Any in both *)
(* documents: in the schema type of its OpenAPI parameter entry and in    *)
(* the Type column of its Markdown table row.                              *)
(***************************************************************************)
C15_AbsentTypeShownAsAny ==
    /\ HasOpenApiDoc =>
          \A i \in DOMAIN endpoints :
              \A k \in DOMAIN endpoints[i].parameters :
                  (/\ endpoints[i].parameters[k].type = None
                   /\ i = LastIndex(endpoints[i].path, endpoints[i].method))
                      => OpenApiPaths[endpoints[i].path][endpoints[i].method]
                             .parameters[k].schema.type = "Any"
    /\ HasMarkdownDoc =>
          \A i \in DOMAIN endpoints :
              \A k \in DOMAIN endpoints[i].parameters :
                  endpoints[i].parameters[k].type = None
                      => Contains(MarkdownDoc,
                                  "| " \o endpoints[i].parameters[k].name \o " | Any | ")

(***************************************************************************)
(* C16: the summary of every OpenAPI operation is the description of the  *)
(* record's ParsedDoc without leading and trailing whitespace; it never   *)
(* ends with the space the docstring interpreter appends to each line.    *)
(***************************************************************************)
C16_SummaryTrimmed ==
    HasOpenApiDoc =>
        \A p \in DOMAIN OpenApiPaths :
            \A m \in DOMAIN OpenApiPaths[p] :
                LET summary == OpenApiPaths[p][m].summary
                    doc == endpoints[LastIndex(p, m)].description.v
                IN  /\ summary = Strip(doc.description)
                    /\ summary = Strip(summary)


(***************************************************************************)
(* Vocabulary of the decorator properties                                  *)
(***************************************************************************)
\* _parse_endpoint raises on h and logs it
Fails(h) ==
    decorator_loop([path |-> None, method |-> None,
                    auth_required |-> FALSE, raised |-> FALSE], h.decorator_list).raised

\* the nodes without the function definitions on which extraction fails
RECURSIVE WithoutFailing(_)
WithoutFailing(nodes) ==
    IF nodes = <<>> THEN <<>>
    ELSE LET n == Head(nodes)
         IN  (IF n.kind = "FunctionDef" /\ Fails(n) THEN <<>>
              ELSE IF n.kind = "ClassDef"
              THEN <<[n EXCEPT !.body = WithoutFailing(n.body)]>>
              ELSE <<n>>)
             \o WithoutFailing(Tail(nodes))

\* the decorator without the pieces that cannot be read: the path keywords
\* whose value is no literal
IsReadable(kw) == ~(kw.arg = "path" /\ kw.value.kind # "Constant")

ReadablePart(d) ==
    IF d.kind = "Call" THEN [d EXCEPT !.keywords = SelectSeq(d.keywords, IsReadable)]
    ELSE d

\* the nodes, every handler reduced to the pieces that can be read
RECURSIVE ReadableParts(_)
ReadableParts(nodes) ==
    IF nodes = <<>> THEN <<>>
    ELSE LET n == Head(nodes)
         IN  <<IF n.kind = "FunctionDef"
               THEN [n EXCEPT !.decorator_list =
                                  [i \in DOMAIN n.decorator_list |->
                                      ReadablePart(n.decorator_list[i])]]
               ELSE IF n.kind = "ClassDef"
               THEN [n EXCEPT !.body = ReadableParts(n.body)]
               ELSE n>>
             \o ReadableParts(Tail(nodes))

(***************************************************************************)
(* C17: a piece of a handler that has an unexpected shape (a path keyword *)
(* that is no literal) is left out and the record of the handler is still *)
(* appended with the pieces that were determined: a parse appends what a  *)
(* parse of the same source without the unreadable pieces appends.        *)
(***************************************************************************)
C17_UnreadablePieceOmitted ==
    (Parsing /\ lastCode.kind = "Module") =>
        endpoints = parse_fastapi_app(before, Module(ReadableParts(lastCode.body))).endpoints

(***************************************************************************)
(* C18: extraction failures are isolated per function: a parse never      *)
(* raises, the function on which extraction fails contributes no record,  *)
(* and the records of all other functions are appended in the order of a  *)
(* parse of the same source without the failing functions.                *)
(***************************************************************************)
C18_FailureIsolated ==
    (Parsing /\ lastCode.kind = "Module") =>
        /\ ~ret.raised
        /\ endpoints = parse_fastapi_app(before, Module(WithoutFailing(lastCode.body))).endpoints
        /\ \A i \in DOMAIN Origins : ~Fails(Origins[i])
        /\ Len(Appended) = Len(Origins)

\* a parse of a source whose second function fails appended the records of
\* the first and of the third, in this order
C18_Witness ==
    /\ lastOp = "parse_fastapi_app"
    /\ lastCode = Module(<<create_item, aliased, make_item>>)
    /\ Fails(lastCode.body[2])
    /\ Len(before) = 1
    /\ Len(Appended) = 2
    /\ Appended[1] = _parse_endpoint(<<>>, create_item)[1]
    /\ Appended[2] = _parse_endpoint(<<>>, make_item)[1]


\* the index of the last decorator of h that is a call of an attribute
LastRouteCall(h) ==
    LET calls == {i \in DOMAIN h.decorator_list :
                     /\ h.decorator_list[i].kind = "Call"
                     /\ h.decorator_list[i].func.kind = "Attribute"}
    IN  CHOOSE i \in calls : \A j \in calls : j <= i

\* the constants one decorator offers as path
CandidatesOf(d) ==
    {d.args[i].value : i \in {j \in DOMAIN d.args : d.args[j].kind = "Constant"}}
    \cup {d.keywords[i].value.value :
             i \in {j \in DOMAIN d.keywords :
                       d.keywords[j].arg = "path" /\ d.keywords[j].value.kind = "Constant"}}

(***************************************************************************)
(* C20: the method and the path of a record both come from the last       *)
(* decorator of its handler that is a call of an attribute; the path of   *)
(* an earlier decorator is never combined with the method of a later one. *)
(***************************************************************************)
C20_LastDecoratorWins ==
    (Parsing /\ lastCode.kind = "Module") =>
        /\ Len(Appended) = Len(Origins)
        /\ \A i \in DOMAIN Appended :
              LET last == Origins[i].decorator_list[LastRouteCall(Origins[i])]
              IN  /\ Appended[i].method = Lower(last.func.attr)
                  /\ Appended[i].path \in CandidatesOf(last)


\* the path a decorator gives by the rule: the first positional argument when
\* it is a string literal, the path keyword only otherwise
ClaimedPath(d) ==
    IF d.args # <<>> /\ IsStr(d.args[1]) THEN {d.args[1].value}
    ELSE {d.keywords[i].value.value :
             i \in {j \in DOMAIN d.keywords :
                       d.keywords[j].arg = "path" /\ d.keywords[j].value.kind = "Constant"}}

(***************************************************************************)
(* C21: the path of a record whose handler has one route decorator is the *)
(* first positional argument of the call when that is a string literal,   *)
(* and the path keyword only otherwise: the keyword never overrides a     *)
(* literal first argument and a literal in a later position is never      *)
(* taken.                                                                  *)
(***************************************************************************)
C21_FirstPositionalIsPath ==
    (Parsing /\ lastCode.kind = "Module") =>
        /\ Len(Appended) = Len(Origins)
        /\ \A i \in DOMAIN Appended :
              Cardinality(RouteCalls(Origins[i])) = 1
                  => Appended[i].path
                        \in ClaimedPath(Origins[i].decorator_list[LastRouteCall(Origins[i])])


\* the nodes of a tree in document order: a node, then what it holds, then
\* what follows it
RECURSIVE DocumentOrder(_)
DocumentOrder(nodes) ==
    IF nodes = <<>> THEN <<>>
    ELSE <<Head(nodes)>> \o DocumentOrder(iter_child_nodes(Head(nodes)))
                         \o DocumentOrder(Tail(nodes))

\* the place of a definition in the document
PlaceOf(n) ==
    CHOOSE k \in DOMAIN DocumentOrder(<<lastCode>>) :
        /\ DocumentOrder(<<lastCode>>)[k] = n
        /\ \A l \in 1..(k - 1) : DocumentOrder(<<lastCode>>)[l] # n

(***************************************************************************)
(* C22: one parse pass appends the records in depth-first document order  *)
(* of their handlers: every record of a handler in a class comes before   *)
(* the record of a top-level handler defined after the class.             *)
(***************************************************************************)
C22_DocumentOrder ==
    (Parsing /\ lastCode.kind = "Module") =>
        /\ Len(Appended) = Len(Origins)
        /\ \A i, j \in DOMAIN Origins :
              i < j => PlaceOf(Origins[i]) <= PlaceOf(Origins[j])


\* the nodes of the last source and the places where a function definition
\* stands: <<k, i>> is statement i of the body of node k
Tree == DocumentOrder(<<lastCode>>)

Places ==
    UNION {{<<k, i>> : i \in {j \in DOMAIN iter_child_nodes(Tree[k]) :
                                 iter_child_nodes(Tree[k])[j].kind = "FunctionDef"}} :
           k \in DOMAIN Tree}

HandlerAt(p) == iter_child_nodes(Tree[p[1]])[p[2]]

RecordOf(h) == _parse_endpoint(<<>>, h)[1]

\* the records the definition at a place gives: one by the walk and one more
\* when it stands directly in a class body
Contribution(p) ==
    IF ~Yields(HandlerAt(p)) THEN 0
    ELSE IF Tree[p[1]].kind = "ClassDef" THEN 2
    ELSE 1

(***************************************************************************)
(* C23: one parse pass hands every function definition, at any depth, to  *)
(* _parse_endpoint once by the walk and once more when it stands directly *)
(* in a class body: a route handler directly in a class body gives two    *)
(* equal records and every other route handler gives one.                 *)
(***************************************************************************)
C23_DispatchCount ==
    (Parsing /\ lastCode.kind = "Module") =>
        /\ Len(Appended) = SumOver([p \in Places |-> Contribution(p)], Places)
        /\ \A p \in Places :
              Yields(HandlerAt(p)) =>
                  Cardinality({i \in DOMAIN Appended :
                                  Appended[i] = RecordOf(HandlerAt(p))})
                    = SumOver([q \in Places |->
                                  IF /\ Yields(HandlerAt(q))
                                     /\ RecordOf(HandlerAt(q)) = RecordOf(HandlerAt(p))
                                  THEN Contribution(q) ELSE 0],
                              Places)

\* a handler in a function body gave one record and a handler in the body
\* of a nested class gave two
C23_Witness ==
    /\ lastOp = "parse_fastapi_app"
    /\ lastCode = Module(<<factory, Outer>>)
    /\ Appended = <<RecordOf(moved), RecordOf(merged), RecordOf(merged)>>


\* the lines that the positions and the headers give to a section, among the
\* first i lines
RECURSIVE LinesIn(_, _)
LinesIn(section, i) ==
    IF i = 0 THEN <<>>
    ELSE LinesIn(section, i - 1)
         \o (IF /\ GivenLines[i] # ""
                /\ HeaderOf(GivenLines[i]) = ""
                /\ SectionAt(i) = section
             THEN <<GivenLines[i]>> ELSE <<>>)

RECURSIVE EachWithSpace(_)
EachWithSpace(lines) ==
    IF lines = <<>> THEN "" ELSE Head(lines) \o " " \o EachWithSpace(Tail(lines))

(***************************************************************************)
(* C24: in _parse_docstring a line is a section header exactly when its   *)
(* trimmed, lower-cased text starts with parameters:, returns: or raises: *)
(* : the sections hold the other non-blank lines, each in the section of  *)
(* the last such header before it, so a keyword in the middle of a line   *)
(* switches nothing and the text after the keyword on a header line is    *)
(* recorded in no section.                                                 *)
(***************************************************************************)
C24_HeaderAtLineStart ==
    lastOp = "_parse_docstring" =>
        LET doc == ret.value.v
            n == Len(GivenLines)
        IN  /\ doc.description = EachWithSpace(LinesIn("description", n))
            /\ doc.returns = EachWithSpace(LinesIn("returns", n))
            /\ doc.raises = LinesIn("raises", n)
            /\ LinesIn("parameters", n) = <<>> => doc.parameters = EmptyDict

\* a line with a keyword in its middle stayed in the description, and the
\* text after the keyword of the header line that follows is in no section
C24_Witness ==
    /\ lastOp = "_parse_docstring"
    /\ lastCode = PyStr("see Returns: below\nreturns: the item\n Does X. ")
    /\ ret.value.v = [description |-> "see Returns: below ", parameters |-> EmptyDict,
                      returns |-> "Does X. ", raises |-> <<>>]


(***************************************************************************)
(* C25: the entry paths[p][m] of the OpenAPI document carries the bearer  *)
(* security requirement exactly when the last catalog record with path p  *)
(* and method m has auth_required; the flag of an earlier record with the *)
(* same path and method does not reach the entry of a later one.          *)
(***************************************************************************)
C25_SecurityOfLastRecord ==
    HasOpenApiDoc =>
        \A p \in DOMAIN OpenApiPaths :
            \A m \in DOMAIN OpenApiPaths[p] :
                /\ \E i \in DOMAIN endpoints : endpoints[i].path = p /\ endpoints[i].method = m
                /\ IF endpoints[LastIndex(p, m)].auth_required
                   THEN /\ "security" \in DOMAIN OpenApiPaths[p][m]
                        /\ OpenApiPaths[p][m].security = <<[bearerAuth |-> <<>>]>>
                   ELSE "security" \notin DOMAIN OpenApiPaths[p][m]

\* a record with auth_required is followed by one without it for the same
\* path and method, and the entry has no security requirement
C25_Witness ==
    /\ lastOp = "generate_openapi_spec"
    /\ ~ret.raised
    /\ endpoints = <<RecordOf(create_item), RecordOf(make_item)>>
    /\ RecordOf(create_item).auth_required
    /\ ~RecordOf(make_item).auth_required
    /\ "security" \notin DOMAIN OpenApiPaths[PyStr("/a")]["post"]


\* the records one pass over the last source gives
OnePass == parse_fastapi_app(<<>>, lastCode).endpoints

\* k times the same records
RECURSIVE Repeated(_, _)
Repeated(records, k) == IF k = 0 THEN <<>> ELSE records \o Repeated(records, k - 1)

(***************************************************************************)
(* C26: the counts of analyze_api_code are cumulative over the life of    *)
(* the instance: a call whose source gives n records reports the count of *)
(* the catalog before the call plus n, so the k-th call with the same     *)
(* source of n documented records reports endpoints_count = k*n; the      *)
(* catalog is never reset between calls.                                   *)
(***************************************************************************)
C26_CountsCumulative ==
    Analyzed =>
        /\ endpoints = before \o OnePass
        /\ ret.value.v.endpoints_count = Len(before) + Len(OnePass)
        /\ \A k \in 1..(MaxCatalog + 1) :
              (OnePass # <<>> /\ endpoints = Repeated(OnePass, k))
                  => ret.value.v.endpoints_count = k * Len(OnePass)

\* the third call with a source of one documented record reports 3
C26_Witness ==
    /\ Analyzed
    /\ Len(OnePass) = 1
    /\ before = Repeated(OnePass, 2)
    /\ endpoints = Repeated(OnePass, 3)
    /\ ret.value.v.endpoints_count = 3


\* the record alone makes an emitter fail
FailsEmitter(e) ==
    generate_openapi_spec(<<e>>).raised \/ generate_markdown_docs(<<e>>).raised

(***************************************************************************)
(* C27: analyze_api_code never raises; when an emitter fails it returns   *)
(* the empty mapping and the records its parse appended stay in the       *)
(* catalog, so once a record that makes an emitter fail is in the catalog *)
(* every later analyze_api_code returns the empty mapping, whatever its   *)
(* source.                                                                 *)
(***************************************************************************)
C27_FailureSticks ==
    lastOp = "analyze_api_code" =>
        /\ ~ret.raised
        /\ ret.value.t = "dict"
        /\ endpoints = before \o OnePass
        /\ (\E i \in DOMAIN endpoints : FailsEmitter(endpoints[i]))
              => ret.value = PyDict(EmptyDict)

\* the catalog held a record that makes an emitter fail before the call, the
\* source of the call gives records that do not, they were appended and the
\* call returned the empty mapping
C27_Witness ==
    /\ lastOp = "analyze_api_code"
    /\ \E i \in DOMAIN before : FailsEmitter(before[i])
    /\ OnePass # <<>>
    /\ \A i \in DOMAIN OnePass : ~FailsEmitter(OnePass[i])
    /\ endpoints = before \o OnePass
    /\ ret.value = PyDict(EmptyDict)


\* the declared parameters of a handler that the rule keeps: all of them at
\* module level or in a function body, all but the receiver in a class body
DeclaredParameters(p) ==
    IF Tree[p[1]].kind = "ClassDef"
    THEN endpoint_parameters(HandlerAt(p))
    ELSE endpoint_parameters_with_first(HandlerAt(p))

(***************************************************************************)
(* C28: only the receiver of a method is left out of the parameters of a  *)
(* record: every declared parameter of a route handler that is no method, *)
(* the first included, becomes a parameter of its record, so def          *)
(* item_by_id(id) routed at /items/{id} gives an OpenAPI operation with a *)
(* path parameter named id.                                                *)
(***************************************************************************)
C28_OnlyReceiverExcluded ==
    /\ (Parsing /\ lastCode.kind = "Module") =>
          \A p \in Places :
              Yields(HandlerAt(p)) =>
                  \E i \in DOMAIN Appended :
                      /\ Appended[i].path = RecordOf(HandlerAt(p)).path
                      /\ Appended[i].method = RecordOf(HandlerAt(p)).method
                      /\ Appended[i].description = RecordOf(HandlerAt(p)).description
                      /\ Appended[i].parameters = DeclaredParameters(p)
    /\ (HasOpenApiDoc /\ PyStr("/items/{id}") \in DOMAIN OpenApiPaths) =>
          \E i \in DOMAIN OpenApiPaths[PyStr("/items/{id}")]["get"].parameters :
              /\ OpenApiPaths[PyStr("/items/{id}")]["get"].parameters[i].name = "id"
              /\ OpenApiPaths[PyStr("/items/{id}")]["get"].parameters[i].in = "path"

\* the async function definitions of the last source, at any depth
AsyncHandlers ==
    {n \in Functions(lastCode) : n.kind = "AsyncFunctionDef"}

\* the record the extractor gives for a definition, if it were handed over
WouldGive(n) == _parse_endpoint(<<>>, n)

(***************************************************************************)
(* C29: a route handler declared with async def is never handed to        *)
(* _parse_endpoint, neither by the walk nor by the class dispatch: it     *)
(* gives no record even with a well-formed route decorator.               *)
(***************************************************************************)
C29_AsyncNeverDispatched ==
    (Parsing /\ lastCode.kind = "Module") =>
        /\ \A n \in AsyncHandlers :
              \A i \in DOMAIN Appended :
                  WouldGive(n) # <<>> => Appended[i] # WouldGive(n)[1]
        /\ Len(Appended)
              = SumOver([p \in Places |-> Contribution(p)], Places)

\* a class held an async route handler and a plain one: only the plain one
\* gave records
C29_Witness ==
    /\ lastOp = "parse_fastapi_app"
    /\ lastCode = Module(<<AsyncRoutes>>)
    /\ WouldGive(fetch) # <<>>
    /\ Appended = <<RecordOf(make_item), RecordOf(make_item)>>

(***************************************************************************)
(* src/auth.py: the users table of users.db, register_user and login_user  *)
(***************************************************************************)
Usernames == {"ann", "bob"}

Passwords == {"pw", "Pw", ""}

\* the values datetime.now() takes
MaxTime == 2

Times == 1..MaxTime

\* hashlib.sha256(password.encode()).hexdigest() of the passwords of the model
Sha256Hex ==
    ("pw" :> "30c952fab122c3f9759f02a6d95c3758b246b4fee239957b2d4fee46e26170c4")
    @@ ("Pw" :> "40f131c3db3d68f63e653e512ab2303682dace69e6d0e6d319e8c0ac5469900f")
    @@ ("" :> "e3b0c44298fc1c149afbf4c8996fb92427ae41e4649b934ca495991b7852b855")

hash_password(password) == Sha256Hex[password]

\* a row of the table without its key; the table maps username, the primary
\* key, to the rest of the row
Rows == [password : {hash_password(p) : p \in Passwords}, created_at : Times]

\* the tables users.db can hold when Auth() opens it: CREATE TABLE IF NOT
\* EXISTS keeps the rows that earlier runs registered
Tables == UNION {[S -> Rows] : S \in SUBSET Usernames}

\* a slip of register_user: INSERT OR REPLACE, a second registration
\* overwrites the row
register_user_or_replace(table, username, password, now) ==
    [users |-> (username :> [password |-> hash_password(password), created_at |-> now])
               @@ table,
     value |-> PyBool("True")]

\* [users, value]: the INSERT raises sqlite3.IntegrityError when the primary
\* key is already in the table, and register_user returns False
register_user(table, username, password, now) ==
    LET hashed_pwd == hash_password(password)
    IN  IF username \in DOMAIN table
        THEN [users |-> table, value |-> PyBool("False")]
        ELSE [users |-> (username :> [password |-> hashed_pwd, created_at |-> now])
                        @@ table,
              value |-> PyBool("True")]

\* SELECT * FROM users WHERE username=? AND password=?; fetchone() is not None
login_user(table, username, password) ==
    LET hashed_pwd == hash_password(password)
        rows == {u \in DOMAIN table : u = username /\ table[u].password = hashed_pwd}
    IN  PyBool(IF rows # {} THEN "True" ELSE "False")

AuthInit ==
    /\ endpoints = <<>>
    /\ lastOp = "__init__"
    /\ lastCode = NoNode
    /\ before = <<>>
    /\ ret = [raised |-> FALSE, value |-> None]
    /\ users \in Tables

RegisterUser(username, password, now) ==
    LET r == register_user(users, username, password, now)
    IN  /\ users' = r.users
        /\ lastOp' = "register_user"
        /\ lastCode' = [username |-> username, password |-> password]
        /\ ret' = [raised |-> FALSE, value |-> r.value]
        /\ UNCHANGED <<endpoints, before>>

LoginUser(username, password) ==
    /\ lastOp' = "login_user"
    /\ lastCode' = [username |-> username, password |-> password]
    /\ ret' = [raised |-> FALSE, value |-> login_user(users, username, password)]
    /\ UNCHANGED <<endpoints, before, users>>

AuthNext ==
    \/ \E username \in Usernames, password \in Passwords, now \in Times :
          RegisterUser(username, password, now)
    \/ \E username \in Usernames, password \in Passwords :
          LoginUser(username, password)

AuthSpec == AuthInit /\ [][AuthNext]_vars

\* the passwords that hash to the hash stored for a user
PasswordsOf(table, username) ==
    {p \in Passwords : username \in DOMAIN table /\ hash_password(p) = table[username].password}

(***************************************************************************)
(* C30: in every step of register_user and login_user: register_user(u,   *)
(* p) returns True and stores u with the hash of p exactly when no user u *)
(* existed before, and on an existing username returns False and leaves   *)
(* the table, so the stored hash, unchanged; login_user(u, p) returns     *)
(* True exactly when u is registered and p hashes to the stored hash, and *)
(* never changes the table; the hash stored for a user never changes, so  *)
(* only the password first registered for u logs in.                      *)
(***************************************************************************)
C30_RegisterAndLogin ==
    [][/\ lastOp' = "register_user" =>
             LET u == lastCode'.username
                 p == lastCode'.password
             IN  /\ ~ret'.raised
                 /\ ret'.value = PyBool(IF u \in DOMAIN users THEN "False" ELSE "True")
                 /\ u \notin DOMAIN users =>
                       /\ DOMAIN users' = DOMAIN users \cup {u}
                       /\ users'[u].password = hash_password(p)
                       /\ PasswordsOf(users', u) = {p}
                       /\ \A v \in DOMAIN users : users'[v] = users[v]
                 /\ u \in DOMAIN users => users' = users
       /\ lastOp' = "login_user" =>
             LET u == lastCode'.username
                 p == lastCode'.password
             IN  /\ ~ret'.raised
                 /\ ret'.value = PyBool(IF p \in PasswordsOf(users, u) THEN "True"
                                        ELSE "False")
                 /\ users' = users
       /\ \A v \in DOMAIN users :
             v \in DOMAIN users' /\ users'[v].password = users[v].password]_vars

\* a second registration of a user with another password was refused and the
\* stored hash is still that of the first password
C30_Witness ==
    /\ lastOp = "register_user"
    /\ ret.value = PyBool("False")
    /\ lastCode.username \in DOMAIN users
    /\ lastCode.password \notin PasswordsOf(users, lastCode.username)
    /\ PasswordsOf(users, lastCode.username) # {}

====
